---- MODULE Spec2Model ----
(***************************************************************************)
(* A model of the MCP gateway's OAuth client provider, its authorization  *)
(* callback server and the per-user MCP client (connect loop, tool         *)
(* discovery and routing).                                                 *)
(*                                                                         *)
(* Optional values (TypeScript `T | undefined`, `T | null`) are modelled   *)
(* as sequences of length 0 or 1: <<>> is undefined/null, <<x>> is x.      *)
(***************************************************************************)
EXTENDS Integers, Sequences, FiniteSets, TLC

None == <<>>
Some(x) == <<x>>

(***************************************************************************)
(* Bounds of the model.                                                    *)
(***************************************************************************)
\* how many refresh timers one session may arm in a run
MaxArm == 2
\* how many times saveCodeVerifier is called in a run
MaxVerifierSaves == 3
\* how many /callback requests one callback server handles in a run
MaxCallbacks == 2
\* how many times waitForAuthorizationCode is called in a run
MaxWaits == 2
\* how many downstream servers the user's configuration lists
NumServers == 3
\* how many times listAllTools is called in a run
MaxPasses == 2
\* how many text chunks the engine produces for one /infer request
MaxChunks == 2
\* how many HTTP requests the gateway serves at the same time
MaxRequests == 2
\* how many times close() of the gateway is called
MaxCloses == 2
\* how many redirect URIs a user file gives one MCP client entry
MaxUris == 2
\* how many OAuth providers are constructed
MaxBuilds == 3
\* how many items the content of a tool result holds
MaxContent == 2

(***************************************************************************)
(* InMemoryOAuthClientProvider                                             *)
(***************************************************************************)
VARIABLES
    tokens,          \* _tokens: None or Some(token set)
    timer,           \* _timer: None or Some(handle) (the handle stays after firing)
    timers,          \* the runtime's pending timeouts armed by this session
    inflight,        \* refreshAuthorization calls awaiting their answer
    nextHandle,      \* next timer handle the runtime hands out
    aborted,         \* the AbortSignal given to the constructor has fired
    codeVerifier,    \* _codeVerifier: None or Some(string)
    cvSaved,         \* history: the arguments of the saveCodeVerifier calls, in order
    cvResult,        \* history: outcome of the last codeVerifier() call
    ev               \* history: the last operation and what it did

oauthVars == <<tokens, timer, timers, inflight, nextHandle, aborted,
               codeVerifier, cvSaved, cvResult, ev>>

VARIABLES
    cbCreated,       \* history: a callback server instance has been constructed
    cbListening,     \* the instance's HTTP server is listening on the callback port
    cbCode,          \* _code: None or Some(code)
    cbError,         \* _callbackError: None or Some(message)
    cbNotify,        \* _notifyCallbackCalled: None or Some(w), the closure that
                     \* settles the promise of wait number w
    waiters,         \* the promises returned by waitForAuthorizationCode, in call order
    cbRequests,      \* history: the /callback requests handled, with their answers
    cbSettled,       \* history: the waits a /callback request settled
    cbResponse       \* the last HTTP answer: None or Some([status, body])

cbVars == <<cbCreated, cbListening, cbCode, cbError, cbNotify, waiters,
            cbRequests, cbSettled, cbResponse>>

(***************************************************************************)
(* MCPClient: connect loop                                                 *)
(***************************************************************************)
VARIABLES
    clientMap,       \* the client ids held by clientMap, in insertion order
    transport,       \* per configured server: "undefined", "connected" or "closed"
    connPc,          \* where connect() is: "idle", "connecting", "waiting",
                     \* "exchanging", "done" or "failed"
    connIdx,         \* position in clientMap of the server being connected
    connError,       \* the error connect() rejected with: None or Some(message)
    connWaiter,      \* the wait the connect loop is blocked on (0: none)
    closeListener,   \* closeCallbackSvr is registered as an abort listener
    attempts,        \* history: the servers _connect was started for, in order
    connected,       \* history: the servers whose connection succeeded
    exchanges        \* history: the authorization codes handed to finishAuth

connVars == <<clientMap, transport, connPc, connIdx, connError, connWaiter,
              closeListener, attempts, connected, exchanges>>

(***************************************************************************)
(* MCPClient: tool discovery and routing                                   *)
(***************************************************************************)
VARIABLES
    functionMap,     \* tool name -> the server whose client serves it (0: no entry)
    listPc,          \* "idle", or "listing" while listAllTools awaits a listTool
    listIdx,         \* position in clientMap of the server being listed
    listServer,      \* the server being listed (0: none)
    listPass,        \* history: how many listAllTools calls were made
    listError,       \* the error the last listAllTools rejected with, or None
    firstSeen,       \* history: per tool name, the earliest (pass, position) at
                     \* which a listTool of listAllTools returned it, or None
    lastListed,      \* history: the last listTool answer: None or Some([server, tools])
    listResult,      \* result.tools of the running or last listAllTools: the
                     \* tools pushed, each with the server that returned it
    lastCall         \* history: the last callTool call, None or Some of: the name
                     \* asked for, the server whose session the tools/call
                     \* request was issued to (0: no request issued), the call's
                     \* state, and whether close() had run before the call

toolVars == <<functionMap, listPc, listIdx, listServer, listPass, listError,
              firstSeen, lastListed, listResult, lastCall>>

(***************************************************************************)
(* LlamaCppServer (the gateway): init                                      *)
(***************************************************************************)
VARIABLES
    users,           \* the user files read by init(), in the order read
    initPc,          \* where init() is: "new", "user" (at the head of the loop
                     \* body for users[initIdx]), "connecting" (awaiting
                     \* mcpClient.connect()), "ready" (returned) or "failed"
    initIdx,         \* position in users of the user being set up
    initError,       \* the error init() rejected with: None or Some(message)
    tokenToUserMap   \* #tokenToUserMap: the entries set, as a set of records

initVars == <<users, initPc, initIdx, initError, tokenToUserMap>>

(***************************************************************************)
(* LlamaCppServer: the HTTP routes and the two models                      *)
(***************************************************************************)
VARIABLES
    reqs,            \* per connection slot: the request being served or last
                     \* served on it (see IdleRequest for the fields)
    models,          \* #inferModel and #embedModel: present (constructed),
                     \* loaded (init done), closing (#closing), aborted (the
                     \* model's own abort controller), closes (history: close()
                     \* calls that ran to their end)
    httpServer       \* #server: "none" (undefined), "starting" (start() is
                     \* loading the models, #server still undefined),
                     \* "listening", "closing" (close called, connections
                     \* still open) or "closed"

httpVars == <<reqs, models, httpServer>>

(***************************************************************************)
(* LlamaCppClient: the consumer of one /infer stream                       *)
(***************************************************************************)
VARIABLES
    readPos,         \* how many frames of the response the reader has delivered
    result,          \* infer(): the text accumulated so far (let result)
    consumerPc,      \* "reading", or "done" once infer() has returned
    bytePos          \* how many bytes of the response the reader has delivered,
                     \* for a reader whose reads end anywhere in the stream

clientVars == <<readPos, result, consumerPc, bytePos>>

(***************************************************************************)
(* LlamaCppServer: close                                                   *)
(***************************************************************************)
VARIABLES
    closing,         \* #closing
    closePc,         \* where the running close() is: "idle" (none running),
                     \* "infer" (awaiting #inferModel.close()), "embed"
                     \* (awaiting #embedModel.close()) or "drain" (awaiting the
                     \* callback of #server.close)
    closeCalls,      \* history: how many times close() was called
    closeDone,       \* history: how many close() runs reached line 473
    abortFired,      \* history: how many times the abort event was dispatched
    listenerCloses   \* history: how many times #server.close was called

shutVars == <<closing, closePc, closeCalls, closeDone, abortFired, listenerCloses>>

(***************************************************************************)
(* Building the OAuth providers of a user's MCP client                     *)
(***************************************************************************)
VARIABLES
    configs,         \* user.mcp_clients of the user object at hand: per entry
                     \* its redirect_uris list (no entry until a file is read)
    builds           \* history: per provider construction, the redirect_uris
                     \* list the entry held when the user file was read, the
                     \* list the constructor was given, who called it and
                     \* the error thrown ("": none)

buildVars == <<configs, builds>>

(***************************************************************************)
(* LlamaCppServer: the handler of a tool function                          *)
(***************************************************************************)
VARIABLES
    handled          \* the last run of a function handler: None or Some of the
                     \* tool, the params the engine gave, the name and
                     \* arguments callTool was called with, the call's state,
                     \* the content of its result and the value returned

handlerVars == <<handled>>

(***************************************************************************)
(* The callback port of the host                                           *)
(***************************************************************************)
VARIABLES
    cbBound          \* how many AuthCallbackServer instances are listening on
                     \* the callback port (an instance that _connect left
                     \* listening is counted although no variable holds it)

portVars == <<cbBound>>

(***************************************************************************)
(* MCPClient.listTool called on its own                                    *)
(***************************************************************************)
VARIABLES
    listCall         \* the last listTool(clientId) call: None or Some of the id
                     \* asked for, the call's state ("pending", "result",
                     \* "error"), how many tools/list requests it issued, and
                     \* the error it threw

listVars == <<listCall>>

restVars == <<handlerVars, portVars, listVars>>

sideVars == <<clientVars, shutVars, buildVars, restVars>>

\* every variable of the gateway but the callback port
gwRest == <<initVars, httpVars, clientVars, shutVars, buildVars, handlerVars,
           listVars>>

gwVars == <<initVars, httpVars, sideVars>>

\* expires_in values a token endpoint may answer (seconds)
ExpiresIn == {5, 3600}
RefreshTokens == {"r1", "r2"}
AccessTokens == {"a1", "a2"}
\* PKCE verifiers are generated by the SDK and are never empty
Verifiers == {"v1", "v2", "v3", "v4"}

\* OAuthTokens: access_token, optional expires_in, optional refresh_token
OAuthTokens ==
    [access_token : AccessTokens,
     expires_in : {None} \cup {Some(e) : e \in ExpiresIn},
     refresh_token : {None} \cup {Some(r) : r \in RefreshTokens}]

\* JavaScript truthiness of an optional number / an optional string
TruthyNumber(o) == o # None /\ o[1] # 0
TruthyString(o) == o # None /\ o[1] # ""

\* history record of the last operation: its kind, the token set it was given,
\* the handle of the timer it armed (0: none), the refresh token it sent
\* ("": none) and whether the abort signal had fired before it
NoEvent == [aborted |-> FALSE, type |-> "none", tok |-> None, h |-> 0, rt |-> ""]
Event(type, tok, rt) ==
    [type |-> type, tok |-> tok,
     h |-> IF nextHandle' > nextHandle THEN nextHandle ELSE 0,
     rt |-> rt, aborted |-> aborted]

\* line 96: the condition under which saveTokens arms a refresh timer
ArmsTimer(t) == TruthyNumber(t.expires_in) /\ TruthyString(t.refresh_token)

\* line 103: const refreshIn = expireIn - 10
RefreshIn(expireIn) == expireIn - 10

\* lines 102-120: _setTokenRefreshTimer; this._timer is overwritten, the
\* previous timeout is not cleared
SetTokenRefreshTimer(expireIn, refreshToken) ==
    /\ nextHandle <= MaxArm
    /\ timers' = timers \cup {[h |-> nextHandle, delay |-> RefreshIn(expireIn),
                              refreshToken |-> refreshToken]}
    /\ timer' = Some(nextHandle)
    /\ nextHandle' = nextHandle + 1

\* lines 94-100: saveTokens
SaveTokensBody(t) ==
    /\ tokens' = Some(t)
    /\ IF ArmsTimer(t)
          THEN SetTokenRefreshTimer(t.expires_in[1], t.refresh_token[1])
          ELSE UNCHANGED <<timers, timer, nextHandle>>

\* saveTokens called by the transport's authorization flow
SaveTokens(t) ==
    /\ SaveTokensBody(t)
    /\ ev' = Event("saveTokens", Some(t), "")
    /\ UNCHANGED <<inflight, aborted, codeVerifier, cvSaved, cvResult>>
    /\ UNCHANGED <<cbVars, connVars, toolVars, gwVars>>

\* lines 108-113: the timeout fires and the callback calls refreshAuthorization
\* with the refresh token captured when the timer was armed
TimerFires(tm) ==
    /\ tm \in timers
    /\ timers' = timers \ {tm}
    /\ inflight' = inflight \cup {tm}
    /\ UNCHANGED <<tokens, timer, nextHandle, aborted, codeVerifier, cvSaved, cvResult>>
    /\ ev' = Event("refreshRequest", None, tm.refreshToken)
    /\ UNCHANGED <<cbVars, connVars, toolVars, gwVars>>

\* lines 114-115: the refresh answered; this.saveTokens(token)
RefreshSucceeds(rq, t) ==
    /\ rq \in inflight
    /\ inflight' = inflight \ {rq}
    /\ SaveTokensBody(t)
    /\ ev' = Event("refreshOk", Some(t), "")
    /\ UNCHANGED <<aborted, codeVerifier, cvSaved, cvResult>>
    /\ UNCHANGED <<cbVars, connVars, toolVars, gwVars>>

\* lines 116-118: the refresh threw; the error is logged
OnRefreshErrorRetryMutant(rq) ==
    /\ nextHandle <= MaxArm
    /\ timers' = timers \cup {[h |-> nextHandle, delay |-> rq.delay,
                              refreshToken |-> rq.refreshToken]}
    /\ timer' = Some(nextHandle)
    /\ nextHandle' = nextHandle + 1
    /\ UNCHANGED tokens
OnRefreshError(rq) == UNCHANGED <<tokens, timers, timer, nextHandle>>

RefreshFails(rq) ==
    /\ rq \in inflight
    /\ inflight' = inflight \ {rq}
    /\ OnRefreshError(rq)
    /\ ev' = Event("refreshFailed", None, "")
    /\ UNCHANGED <<aborted, codeVerifier, cvSaved, cvResult>>
    /\ UNCHANGED <<cbVars, connVars, toolVars, gwVars>>

\* lines 122-128: _clearRefreshTimer
ClearRefreshTimer ==
    IF timer # None
       THEN /\ timers' = {tm \in timers : tm.h # timer[1]}
            /\ timer' = None
       ELSE UNCHANGED <<timers, timer>>

\* line 44: the abort listener registered by the constructor
Abort ==
    /\ ~aborted
    /\ aborted' = TRUE
    /\ ClearRefreshTimer
    /\ UNCHANGED <<tokens, inflight, nextHandle, codeVerifier, cvSaved, cvResult>>
    /\ ev' = Event("abort", None, "")
    /\ UNCHANGED <<cbVars, connVars, toolVars, gwVars>>

\* lines 134-136: saveCodeVerifier
StoreVerifierKeepFirstMutant(old, v) == IF old = None THEN Some(v) ELSE old
StoreVerifier(old, v) == Some(v)

SaveCodeVerifier(v) ==
    /\ Len(cvSaved) < MaxVerifierSaves
    /\ codeVerifier' = StoreVerifier(codeVerifier, v)
    /\ cvSaved' = Append(cvSaved, v)
    /\ cvResult' = None
    /\ UNCHANGED <<tokens, timer, timers, inflight, nextHandle, aborted, ev>>
    /\ UNCHANGED <<cbVars, connVars, toolVars, gwVars>>

\* lines 138-143: codeVerifier()
ReadVerifier(cv) ==
    IF ~TruthyString(cv)
       THEN [ok |-> FALSE, value |-> "No code verifier saved"]
       ELSE [ok |-> TRUE, value |-> cv[1]]

CodeVerifier ==
    /\ cvResult' = Some(ReadVerifier(codeVerifier))
    /\ UNCHANGED <<tokens, timer, timers, inflight, nextHandle, aborted,
                   codeVerifier, cvSaved, ev>>
    /\ UNCHANGED <<cbVars, connVars, toolVars, gwVars>>

OAuthInit ==
    /\ tokens = None
    /\ timer = None
    /\ timers = {}
    /\ inflight = {}
    /\ nextHandle = 1
    /\ aborted = FALSE
    /\ codeVerifier = None
    /\ cvSaved = <<>>
    /\ cvResult = None
    /\ ev = NoEvent

(***************************************************************************)
(* AuthCallbackServer                                                      *)
(***************************************************************************)
\* values of the code and error query parameters: absent, or a non-empty string
CodeParams == {None, Some("c1"), Some("c2")}
ErrorParams == {None, Some("access_denied")}

NoCodeMsg == "No authorization code provided"

Pending == [st |-> "pending", val |-> ""]
Resolved(v) == [st |-> "resolved", val |-> v]
Rejected(v) == [st |-> "rejected", val |-> v]

\* a promise settles once: resolve and reject on a settled promise do nothing
Settle(ws, w, outcome) ==
    IF ws[w].st = "pending" THEN [ws EXCEPT ![w] = outcome] ELSE ws

\* lines 170-171: searchParams.get(..) || null
OrNull(p) == IF TruthyString(p) THEN p ELSE None

\* lines 173-188: the answer of the /callback route and the error it keeps
CallbackAnswer(error, code) ==
    IF error # None
       THEN [status |-> 400, body |-> "Authorization failed", error |-> error]
       ELSE IF code # None
               THEN [status |-> 200, body |-> "Authorization successful", error |-> error]
               ELSE [status |-> 400, body |-> NoCodeMsg, error |-> Some(NoCodeMsg)]

\* lines 220-224: the closure waitForAuthorizationCode registers
NotifyOutcome(code, error) ==
    IF code # None THEN Resolved(code[1])
    ELSE IF error # None THEN Rejected(error[1])
    ELSE Rejected("No authorization code nor error received")

\* lines 156-201, 203-213: createAndStart
CreateAndStartBody ==
    /\ cbCreated' = TRUE
    /\ cbListening' = TRUE
    /\ cbCode' = None
    /\ cbError' = None
    /\ cbNotify' = None
    /\ cbRequests' = <<>>
    /\ cbResponse' = None

\* lines 162-166: GET /
HandleRootBody ==
    /\ cbListening
    /\ cbResponse' = Some([status |-> 200, body |-> "OAuth Callback Server is running"])
    /\ UNCHANGED <<cbCreated, cbListening, cbCode, cbError, cbNotify, waiters,
                   cbRequests, cbSettled>>

\* lines 197-199: any other path
HandleOtherBody ==
    /\ cbListening
    /\ cbResponse' = Some([status |-> 404, body |-> "Not found"])
    /\ UNCHANGED <<cbCreated, cbListening, cbCode, cbError, cbNotify, waiters,
                   cbRequests, cbSettled>>

\* lines 168-195: GET /callback
HandleCallbackBody(errorParam, codeParam) ==
    LET error == OrNull(errorParam)
        code == OrNull(codeParam)
        ans == CallbackAnswer(error, code)
    IN  /\ cbListening
        /\ Len(cbRequests) < MaxCallbacks
        /\ cbResponse' = Some([status |-> ans.status, body |-> ans.body])
        /\ cbCode' = code
        /\ cbError' = ans.error
        /\ IF cbNotify # None
              THEN /\ waiters' = Settle(waiters, cbNotify[1], NotifyOutcome(code, ans.error))
                   /\ cbSettled' = IF waiters[cbNotify[1]].st = "pending"
                                      THEN cbSettled \cup {cbNotify[1]}
                                      ELSE cbSettled
              ELSE UNCHANGED <<waiters, cbSettled>>
        /\ cbRequests' = Append(cbRequests,
                                [error |-> errorParam, code |-> codeParam,
                                 status |-> ans.status])
        /\ UNCHANGED <<cbCreated, cbListening, cbNotify>>

\* lines 215-226: waitForAuthorizationCode; the notifier is registered whether
\* or not the promise was settled at once
WaitForAuthorizationCodeBody ==
    LET w == Len(waiters) + 1 IN
    /\ cbCreated
    /\ Len(waiters) < MaxWaits
    /\ waiters' = Append(waiters,
                         IF cbCode # None THEN Resolved(cbCode[1])
                         ELSE IF cbError # None THEN Rejected(cbError[1])
                         ELSE Pending)
    /\ cbNotify' = Some(w)
    /\ UNCHANGED <<cbCreated, cbListening, cbCode, cbError, cbRequests, cbSettled,
                   cbResponse>>

ReleasedNeverMutant(listening) == 0

\* lines 228-232: how many listeners of the callback port close() releases
Released(listening) == IF listening THEN 1 ELSE 0

\* lines 228-232: close
CloseCallbackServerBody ==
    /\ cbListening' = FALSE
    /\ UNCHANGED <<cbCreated, cbCode, cbError, cbNotify, waiters, cbRequests,
                   cbSettled, cbResponse>>

CbInit ==
    /\ cbCreated = FALSE
    /\ cbListening = FALSE
    /\ cbCode = None
    /\ cbError = None
    /\ cbNotify = None
    /\ waiters = <<>>
    /\ cbRequests = <<>>
    /\ cbSettled = {}
    /\ cbResponse = None

(***************************************************************************)
(* MCPClient: constructor, close, connect, _connect, establishConnection   *)
(***************************************************************************)
Servers == 1..NumServers
\* lines 44-57: the constructor fills clientMap in configuration order
ConfiguredClients == [i \in Servers |-> i]

\* lines 62-66: close() closes the transports that are set and clears clientMap
CloseBody ==
    /\ transport' = [s \in Servers |->
                        IF (\E i \in 1..Len(clientMap) : clientMap[i] = s)
                           /\ transport[s] = "connected"
                           THEN "closed" ELSE transport[s]]
    /\ clientMap' = <<>>

\* lines 80-88: _connect for the server at position i, up to the first await
\* (a callback server is created and started, its close is registered on the
\* signal, and client.connect is awaited)
BeginConnect(i) ==
    /\ CreateAndStartBody
    /\ closeListener' = TRUE
    /\ attempts' = Append(attempts, clientMap[i])
    /\ connIdx' = i
    /\ connPc' = "connecting"
    /\ connWaiter' = 0
    /\ UNCHANGED <<waiters, cbSettled>>

\* lines 89-90, 69-71: after a successful _connect the abort listener is
\* removed and the callback server closed; the for-of loop over
\* clientMap.values() takes the entry after position i, or ends
NextServer(i) ==
    IF i + 1 <= Len(clientMap)
       THEN BeginConnect(i + 1)
       ELSE /\ connPc' = "done"
            /\ cbListening' = FALSE
            /\ closeListener' = FALSE
            /\ UNCHANGED <<cbCreated, cbCode, cbError, cbNotify, cbRequests,
                           cbResponse, waiters, cbSettled, connIdx, connWaiter,
                           attempts>>

\* line 68: connect() is called
ConnectBody ==
    /\ connPc = "idle"
    /\ IF Len(clientMap) >= 1
          THEN BeginConnect(1) /\ UNCHANGED <<transport, connected, clientMap>>
          ELSE /\ connPc' = "done"
               /\ UNCHANGED <<cbVars, clientMap, transport, connIdx, connWaiter,
                              closeListener, attempts, connected>>
    /\ UNCHANGED <<connError, exchanges, oauthVars, toolVars>>

\* line 80: the callback server of the first _connect binds the port
ConnectBinds == cbBound' = IF Len(clientMap) >= 1 THEN cbBound + 1 ELSE cbBound

Connect == ConnectBody /\ ConnectBinds /\ UNCHANGED gwRest

\* lines 105-107, 84-92: client.connect succeeded; the transport is kept, the
\* abort listener removed, the callback server closed, and the loop goes on
ConnectSucceeds ==
    /\ connPc = "connecting"
    /\ transport' = [transport EXCEPT ![attempts[Len(attempts)]] = "connected"]
    /\ connected' = connected \cup {attempts[Len(attempts)]}
    /\ NextServer(connIdx)
    /\ cbBound' = cbBound - Released(cbListening)
                   + (IF connIdx + 1 <= Len(clientMap) THEN 1 ELSE 0)
    /\ UNCHANGED <<clientMap, connError, exchanges, oauthVars, toolVars, gwRest>>

\* lines 109-111: client.connect threw UnauthorizedError; the loop waits for
\* the authorization code on the callback server of this _connect
ConnectUnauthorized ==
    /\ connPc = "connecting"
    /\ WaitForAuthorizationCodeBody
    /\ connWaiter' = Len(waiters) + 1
    /\ connPc' = "waiting"
    /\ UNCHANGED <<clientMap, transport, connIdx, connError, closeListener,
                   attempts, connected, exchanges, oauthVars, toolVars, gwVars>>

\* lines 116-119 (and a rejected await inside the catch block): the error
\* leaves establishConnection, _connect and connect; nothing is cleaned up
ThrowContinueMutant(err) ==
    /\ connError' = connError
    /\ NextServer(connIdx)
    /\ UNCHANGED <<clientMap, transport, connected, exchanges>>
Throw(err) ==
    /\ connPc' = "failed"
    /\ connError' = Some(err)
    /\ UNCHANGED <<cbVars, clientMap, transport, connIdx, connWaiter,
                   closeListener, attempts, connected, exchanges>>

\* lines 116-119: client.connect threw another error
ConnectFails ==
    /\ connPc = "connecting"
    /\ Throw("connect failed")
    /\ UNCHANGED <<oauthVars, toolVars, gwVars>>

\* lines 111-112: the wait resolved; the code is handed to transport.finishAuth
WaitResolved ==
    /\ connPc = "waiting"
    /\ waiters[connWaiter].st = "resolved"
    /\ exchanges' = Append(exchanges, waiters[connWaiter].val)
    /\ connPc' = "exchanging"
    /\ UNCHANGED <<cbVars, clientMap, transport, connIdx, connError, connWaiter,
                   closeListener, attempts, connected, oauthVars, toolVars, gwVars>>

\* line 111: the wait rejected
WaitRejected ==
    /\ connPc = "waiting"
    /\ waiters[connWaiter].st = "rejected"
    /\ Throw(waiters[connWaiter].val)
    /\ UNCHANGED <<oauthVars, toolVars, gwVars>>

\* lines 112-115: finishAuth succeeded; establishConnection is entered again
\* with the same callback server
ExchangeSucceeds ==
    /\ connPc = "exchanging"
    /\ connPc' = "connecting"
    /\ UNCHANGED <<cbVars, clientMap, transport, connIdx, connError, connWaiter,
                   closeListener, attempts, connected, exchanges, oauthVars, toolVars, gwVars>>

\* line 112: finishAuth threw
ExchangeFails ==
    /\ connPc = "exchanging"
    /\ Throw("token exchange failed")
    /\ UNCHANGED <<oauthVars, toolVars, gwVars>>

\* the abort signal fires; its listeners run in registration order: each
\* provider's _clearRefreshTimer (InMemoryOAuthClientProvider line 44), the
\* client's close() (line 59) and, while a _connect is awaiting, closeCallbackSvr
\* (line 83)
AbortListeners ==
    /\ ClearRefreshTimer
    /\ CloseBody
    /\ cbListening' = IF closeListener THEN FALSE ELSE cbListening
    /\ cbBound' = IF closeListener THEN cbBound - Released(cbListening) ELSE cbBound
    /\ UNCHANGED <<tokens, inflight, nextHandle, codeVerifier, cvSaved, cvResult, ev>>
    /\ UNCHANGED <<cbCreated, cbCode, cbError, cbNotify, waiters, cbRequests,
                   cbSettled, cbResponse>>
    /\ UNCHANGED <<connPc, connIdx, connError, connWaiter, closeListener,
                   attempts, connected, exchanges, toolVars>>

AbortSignal ==
    /\ ~aborted
    /\ aborted' = TRUE
    /\ AbortListeners
    /\ UNCHANGED gwRest

\* a /callback request reaches the callback server of the running _connect
CallbackArrives(e, c) ==
    /\ HandleCallbackBody(e, c)
    /\ UNCHANGED <<connVars, oauthVars, toolVars, gwVars>>

ConnInit ==
    /\ clientMap = ConfiguredClients
    /\ transport = [s \in Servers |-> "undefined"]
    /\ connPc = "idle"
    /\ connIdx = 0
    /\ connError = None
    /\ connWaiter = 0
    /\ closeListener = FALSE
    /\ attempts = <<>>
    /\ connected = {}
    /\ exchanges = <<>>

(***************************************************************************)
(* MCPClient: listTool, listAllTools                                       *)
(***************************************************************************)
ToolNames == {"x", "y"}

\* lines 143-147: a returned tool is registered unless its name has an entry
RegisterOverwriteMutant(fm, tools, server) ==
    [n \in ToolNames |-> IF n \in tools THEN server ELSE fm[n]]
Register(fm, tools, server) ==
    [n \in ToolNames |-> IF n \in tools /\ fm[n] = 0 THEN server ELSE fm[n]]

\* the tools array of a tools/list answer: the tools of a server, each with
\* the server whose description and input schema it carries
ToolsOf(tools, server) ==
    (IF "x" \in tools THEN <<[name |-> "x", server |-> server]>> ELSE <<>>)
        \o (IF "y" \in tools THEN <<[name |-> "y", server |-> server]>> ELSE <<>>)

\* llamacppServer.ts lines 319-346: #mapToolsToLlamaFunctions; functions[name]
\* is assigned for every tool of the list in turn, so the tool that comes last
\* under a name is the one bound (0: no function of that name); the tools
\* have an input schema of type object
RECURSIVE MapToolsToLlamaFunctions(_, _)
MapToolsToLlamaFunctions(toolsResult, functions) ==
    IF toolsResult = <<>> THEN functions
    ELSE MapToolsToLlamaFunctions(
             Tail(toolsResult),
             [functions EXCEPT ![Head(toolsResult).name] = Head(toolsResult).server])

\* the earlier of two (pass, position) pairs
Earlier(a, b) ==
    IF a.pass < b.pass \/ (a.pass = b.pass /\ a.idx <= b.idx) THEN a ELSE b

\* lines 138-141: listAllTools is called; it awaits listTool of the first entry
ListAllTools ==
    /\ listPc = "idle"
    /\ listPass < MaxPasses
    /\ listPass' = listPass + 1
    /\ listError' = None
    /\ IF Len(clientMap) >= 1
          THEN /\ listPc' = "listing"
               /\ listIdx' = 1
               /\ listServer' = clientMap[1]
          ELSE UNCHANGED <<listPc, listIdx, listServer>>
    /\ listResult' = <<>>
    /\ UNCHANGED <<functionMap, firstSeen, lastListed, lastCall>>
    /\ UNCHANGED <<oauthVars, cbVars, connVars, gwVars>>

\* lines 123-131, 141-148: the tools/list request of the awaited listTool
\* answered; its tools are registered and the loop takes the next entry of
\* clientMap, or returns
ListToolReturns(tools) ==
    /\ listPc = "listing"
    /\ transport[listServer] = "connected"
    /\ functionMap' = Register(functionMap, tools, listServer)
    /\ firstSeen' = [n \in ToolNames |->
                        IF n \notin tools THEN firstSeen[n]
                        ELSE LET now == [pass |-> listPass, idx |-> listIdx,
                                         server |-> listServer]
                             IN IF firstSeen[n] = None THEN Some(now)
                                ELSE Some(Earlier(firstSeen[n][1], now))]
    /\ lastListed' = Some([server |-> listServer, tools |-> tools])
    /\ listResult' = listResult \o ToolsOf(tools, listServer)
    /\ IF listIdx + 1 <= Len(clientMap)
          THEN /\ listIdx' = listIdx + 1
               /\ listServer' = clientMap[listIdx + 1]
               /\ UNCHANGED listPc
          ELSE /\ listPc' = "idle"
               /\ listServer' = 0
               /\ UNCHANGED listIdx
    /\ UNCHANGED <<listPass, listError, lastCall>>
    /\ UNCHANGED <<oauthVars, cbVars, connVars, gwVars>>

\* lines 132-135: the request failed; the error is logged and thrown again,
\* and leaves listAllTools
ListToolThrows ==
    /\ listPc = "listing"
    /\ listPc' = "idle"
    /\ listServer' = 0
    /\ listError' = Some("tools/list failed")
    /\ UNCHANGED <<functionMap, listIdx, listPass, firstSeen, lastListed,
                   listResult, lastCall>>
    /\ UNCHANGED <<oauthVars, cbVars, connVars, gwVars>>

\* the names callTool is asked for: the tools the servers expose and one that
\* no server exposes
CallNames == ToolNames \cup {"missing"}

\* line 156: this.functionMap.get(toolName) (0: undefined)
FunctionMapGetAnyMutant(fm, n) == IF n \in DOMAIN fm /\ fm[n] # 0 THEN fm[n] ELSE 1
FunctionMapGet(fm, n) == IF n \in DOMAIN fm THEN fm[n] ELSE 0

\* lines 152-167: callTool up to its await: the lookup, the not-found error,
\* or the tools/call request issued on the client found
CallTool(n) ==
    LET client == FunctionMapGet(functionMap, n) IN
    /\ IF lastCall = None THEN TRUE ELSE lastCall[1].st # "pending"
    /\ lastCall' = Some([name |-> n, server |-> client,
                         st |-> IF client = 0 THEN "notFound" ELSE "pending",
                         closed |-> clientMap = <<>>])
    /\ UNCHANGED <<functionMap, listPc, listIdx, listServer, listPass, listError,
                   firstSeen, lastListed, listResult>>
    /\ UNCHANGED <<oauthVars, cbVars, connVars, gwVars>>

\* line 167: the awaited request answered; callTool returns the result
CallToolReturns ==
    /\ lastCall # None
    /\ lastCall[1].st = "pending"
    /\ transport[lastCall[1].server] = "connected"
    /\ lastCall' = Some([lastCall[1] EXCEPT !.st = "result"])
    /\ UNCHANGED <<functionMap, listPc, listIdx, listServer, listPass, listError,
                   firstSeen, lastListed, listResult>>
    /\ UNCHANGED <<oauthVars, cbVars, connVars, gwVars>>

\* lines 168-171: the awaited request failed; the error is logged and thrown
\* again
CallToolThrows ==
    /\ lastCall # None
    /\ lastCall[1].st = "pending"
    /\ lastCall' = Some([lastCall[1] EXCEPT !.st = "error"])
    /\ UNCHANGED <<functionMap, listPc, listIdx, listServer, listPass, listError,
                   firstSeen, lastListed, listResult>>
    /\ UNCHANGED <<oauthVars, cbVars, connVars, gwVars>>

\* lines 62-66: close() called (directly, or by the abort listener of line 59)
Close ==
    /\ CloseBody
    /\ UNCHANGED <<connPc, connIdx, connError, connWaiter, closeListener,
                   attempts, connected, exchanges>>
    /\ UNCHANGED <<oauthVars, cbVars, toolVars, gwVars>>

ToolInit ==
    /\ functionMap = [n \in ToolNames |-> 0]
    /\ listPc = "idle"
    /\ listIdx = 0
    /\ listServer = 0
    /\ listPass = 0
    /\ listError = None
    /\ firstSeen = [n \in ToolNames |-> None]
    /\ lastListed = None
    /\ listResult = <<>>
    /\ lastCall = None

(***************************************************************************)
(* LlamaCppServer: init                                                    *)
(***************************************************************************)
\* strings that the code takes apart are sequences of characters
T1 == <<"t", "1">>
T2 == <<"t", "2">>
BearerTokens == {T1, T2}
UserIds == {"u1", "u2"}

\* a user file: mcp says whether mcp_clients is non-empty (its entries are
\* then the configured servers of the MCP client modelled above)
UserFiles == [user_id : UserIds, bearer_token : BearerTokens, mcp : BOOLEAN]

\* the lists readUserJsonFiles may return: one file per user id
UserLists ==
    {<<>>} \cup {<<u>> : u \in UserFiles}
           \cup {<<u, v>> : u \in {x \in UserFiles : x.user_id = "u1"},
                             v \in {x \in UserFiles : x.user_id = "u2"}}
           \cup {<<v, u>> : u \in {x \in UserFiles : x.user_id = "u1"},
                             v \in {x \in UserFiles : x.user_id = "u2"}}

\* line 312: Map.set replaces the entry stored under the same key
MapSet(m, e) == {x \in m : x.token # e.token} \cup {e}
MapHas(m, t) == \E x \in m : x.token = t
MapGet(m, t) == IF MapHas(m, t) THEN Some(CHOOSE x \in m : x.token = t) ELSE None

\* part_001 lines 124-125: this.clientMap.get(clientId); the ids of the
\* configured clients are the server numbers, None is undefined
ClientMapHas(clientId) ==
    /\ clientId # None
    /\ \E i \in 1..Len(clientMap) : clientMap[i] = clientId[1]

\* LLamaCppModel.init (llamacpp.ts lines 48-54) of the models constructed
LoadModels ==
    models' = [m \in {"infer", "embed"} |->
                 IF models[m].present THEN [models[m] EXCEPT !.loaded = TRUE]
                                      ELSE models[m]]

\* lines 301-302: init() is called and the user files are read
GwInit(us) ==
    /\ initPc = "new"
    /\ users' = us
    /\ initIdx' = 1
    /\ IF us = <<>> THEN initPc' = "ready" /\ LoadModels
                    ELSE initPc' = "user" /\ UNCHANGED models
    /\ UNCHANGED <<initError, tokenToUserMap, reqs, httpServer>>
    /\ UNCHANGED <<oauthVars, cbVars, connVars, toolVars, sideVars>>

\* lines 303-313, 314-316: the loop goes to the next user, or init returns
\* after the models are loaded
InitNextUser ==
    IF initIdx < Len(users)
       THEN initIdx' = initIdx + 1 /\ initPc' = "user" /\ UNCHANGED models
       ELSE initPc' = "ready" /\ LoadModels /\ UNCHANGED initIdx

\* lines 303-313: the loop body for users[initIdx]. Without MCP clients the
\* entry is stored with no client and no functions; with MCP clients the
\* client is constructed and its connect() awaited
InitUser ==
    LET u == users[initIdx] IN
    /\ initPc = "user"
    /\ IF u.mcp
          THEN /\ ConnectBody
               /\ ConnectBinds
               /\ initPc' = "connecting"
               /\ UNCHANGED <<initIdx, tokenToUserMap, models>>
          ELSE /\ tokenToUserMap' =
                     MapSet(tokenToUserMap,
                            [token |-> u.bearer_token, user_id |-> u.user_id,
                             mcpClient |-> FALSE, functions |-> None])
               /\ InitNextUser
               /\ UNCHANGED <<oauthVars, cbVars, connVars, toolVars, cbBound>>
    /\ UNCHANGED <<users, initError, reqs, httpServer, clientVars, shutVars,
                   buildVars, handlerVars, listVars>>

\* lines 308-309: connect() returned and init calls mcpClient.listTool()
\* with no client id: the lookup of part_001 line 124 finds no client and
\* listTool throws, so init() rejects (lines 310-312 are not reached for a
\* user with MCP clients)
InitListTool ==
    /\ initPc = "connecting"
    /\ connPc = "done"
    /\ ~ClientMapHas(None)
    /\ initPc' = "failed"
    /\ initError' = Some("Client undefined not found")
    /\ UNCHANGED <<users, initIdx, tokenToUserMap, httpVars>>
    /\ UNCHANGED <<oauthVars, cbVars, connVars, toolVars, sideVars>>

\* line 308: connect() rejected and so does init()
InitConnectFailed ==
    /\ initPc = "connecting"
    /\ connPc = "failed"
    /\ initPc' = "failed"
    /\ initError' = connError
    /\ UNCHANGED <<users, initIdx, tokenToUserMap, httpVars>>
    /\ UNCHANGED <<oauthVars, cbVars, connVars, toolVars, sideVars>>

InitInit ==
    /\ users = <<>>
    /\ initPc = "new"
    /\ initIdx = 0
    /\ initError = None
    /\ tokenToUserMap = {}

(***************************************************************************)
(* LlamaCppServer: auth middleware, /infer, /embedding                     *)
(***************************************************************************)
Slots == 1..MaxRequests

BearerPrefix == <<"B", "e", "a", "r", "e", "r", " ">>
\* values of the Authorization header: absent, well formed for both users,
\* a wrong token, a token without the scheme, the scheme alone, and a
\* lower-case scheme
AuthHeaders ==
    {<<>>, BearerPrefix \o T1, BearerPrefix \o T2, BearerPrefix \o <<"z", "z">>,
     T1, BearerPrefix, <<"b", "e", "a", "r", "e", "r", " ">> \o T1}

StartsWith(str, prefix) ==
    /\ Len(str) >= Len(prefix)
    /\ SubSeq(str, 1, Len(prefix)) = prefix
\* String.prototype.slice(n)
Slice(str, n) == SubSeq(str, n + 1, Len(str))

\* line 365: the token taken from the header
ExtractToken(authHeader) ==
    IF StartsWith(authHeader, BearerPrefix) THEN Slice(authHeader, 7) ELSE authHeader

\* line 366: the test of the auth middleware
AuthorizedAnyTokenMutant(token) == token # <<>>
Authorized(token) == MapHas(tokenToUserMap, token)

\* JSON values of a request body field; numbers are in tenths (20 is 2.0).
\* (The fields of the records that are constants of the model are written in
\* the order in which TLC keeps them, so that its workers never reorder a
\* record they share.)
JUndef == [t |-> "undefined", s |-> "", n |-> 0, a |-> <<>>, b |-> FALSE]
JNull == [t |-> "null", s |-> "", n |-> 0, a |-> <<>>, b |-> FALSE]
JNum(x) == [t |-> "number", s |-> "", n |-> x, a |-> <<>>, b |-> FALSE]
JStr(x) == [t |-> "string", s |-> x, n |-> 0, a |-> <<>>, b |-> FALSE]
JArr(x) == [t |-> "array", s |-> "", n |-> 0, a |-> x, b |-> FALSE]
JBool(x) == [t |-> "boolean", s |-> "", n |-> 0, a |-> <<>>, b |-> x]

\* JavaScript truthiness of a JSON value
Truthy(j) ==
    CASE j.t = "undefined" -> FALSE
      [] j.t = "null" -> FALSE
      [] j.t = "boolean" -> j.b
      [] j.t = "number" -> j.n # 0
      [] j.t = "string" -> j.s # ""
      [] j.t = "array" -> TRUE

Prompts == {JUndef, JStr(""), JStr("x")}
Temperatures ==
    {JUndef, JNull, JNum(-1), JNum(0), JNum(5), JNum(20), JNum(21), JNum(50),
     JStr("hot"), JStr(""), JBool(FALSE)}
StopTexts == {JUndef, JNull, JArr(<<>>), JArr(<<"s">>), JStr("s"), JStr("")}
InferBodies == [prompt : Prompts, temperature : Temperatures, stopText : StopTexts]
EmbedBodies == [prompt : Prompts, temperature : {JUndef}, stopText : {JUndef}]

\* lines 480-496: #validateInferRequest; "" is no error
ValidateInferRequest(body) ==
    IF ~Truthy(body.prompt) THEN "prompt required"
    ELSE IF Truthy(body.temperature)
            /\ (body.temperature.t # "number" \/ body.temperature.n < 0
                \/ body.temperature.n > 20)
       THEN "temperature must be a number between 0 and 2"
    ELSE IF Truthy(body.stopText)
            /\ (body.stopText.t # "array" \/ Len(body.stopText.a) = 0)
       THEN "stopText must be a non-empty array"
    ELSE ""

ValidateEmbeddingRequestAcceptAllMutant(body) == ""

\* lines 498-504: #validateEmbeddingRequest (the text field is carried in
\* the prompt field of the body record)
ValidateEmbeddingRequest(body) ==
    IF ~Truthy(body.prompt) THEN "text required" ELSE ""

\* text the engine produces
NL == "\n"
BreakText == <<"[", "B", "R", "E", "A", "K", "]">>
EOFText == <<"[", "E", "O", "F", "]">>
DataPrefix == <<"d", "a", "t", "a", ":">>
FrameEnd == <<NL, NL>>
ErrorText == <<"e", "r", "r">>
Chunks == {<<"a">>, <<"a", NL, "b">>, <<>>, <<NL>>, BreakText, EOFText}
\* the chunks used where the text itself does not matter
PlainChunks == {<<"a">>, <<"a", NL, "b">>}

\* String.prototype.replace(/pat/g, rep) for a literal pattern
RECURSIVE ReplaceAll(_, _, _)
ReplaceAll(str, pat, rep) ==
    IF str = <<>> THEN <<>>
    ELSE IF StartsWith(str, pat)
            THEN rep \o ReplaceAll(Slice(str, Len(pat)), pat, rep)
            ELSE <<Head(str)>> \o ReplaceAll(Tail(str), pat, rep)

\* lines 404-405: the frame written for a text chunk
DataFrame(chunk) == DataPrefix \o ReplaceAll(chunk, <<NL>>, BreakText) \o FrameEnd
\* line 410
EOFFrame == DataPrefix \o EOFText \o FrameEnd
\* line 414
ErrorFrame(msg) ==
    <<"e", "v", "e", "n", "t", ":", " ", "e", "r", "r", "o", "r", NL>>
        \o DataPrefix \o msg \o FrameEnd

\* a frame as written: which statement wrote it, and its bytes
Frame(kind, wire) == [kind |-> kind, wire |-> wire]

\* lines 410, 414: what the handler writes when the engine call settles
TerminalFramesSilentErrorMutant(outcome) ==
    IF outcome = "returned" THEN <<Frame("eof", EOFFrame)>> ELSE <<>>
TerminalFrames(outcome) ==
    IF outcome = "returned"
       THEN <<Frame("eof", EOFFrame)>>
       ELSE <<Frame("error", ErrorFrame(ErrorText))>>

IdleRequest ==
    [aborted |-> FALSE,      \* the model's abort signal fired during the call
     error |-> "",           \* the error of the JSON answer ("": none)
     status |-> 0,           \* the status sent (0: none yet)
     body |-> [prompt |-> JUndef, temperature |-> JUndef, stopText |-> JUndef],
     pc |-> "idle",          \* "idle", "engine" (awaiting the model) or "ended"
     route |-> "",           \* "infer", "embedding" or "root"
     header |-> <<>>,        \* the Authorization header
     userInfo |-> None,      \* req.userInfo
     flushed |-> FALSE,      \* res.flushHeaders() was called
     frames |-> <<>>,        \* what res.write was given, in order
     chunks |-> <<>>,        \* history: the text chunks the engine produced
     engine |-> "none",      \* the model call: "none", "running", "returned", "threw"
     conn |-> "closed"]      \* the connection: "open" or "closed"

\* LLamaCppModel.infer/embed lines 89, 107, 70-72: the call throws at once
\* while the model is closing, and on a disposed context or model
ModelUsable(m) ==
    /\ models[m].present /\ models[m].loaded /\ ~models[m].closing

\* the message of the error a failing engine call throws
EngineMessage == "err"

RejectWithFrameMutant(r, status, msg) ==
    [r EXCEPT !.pc = "ended", !.status = status, !.error = msg,
              !.frames = <<Frame("eof", EOFFrame)>>]

\* res.status(status).json({ error: msg }): the answer that ends a request
\* without a model call
Reject(r, status, msg) ==
    [r EXCEPT !.pc = "ended", !.status = status, !.error = msg]

\* the request sits in front of the model, or the model threw at once
CallModel(r, m) ==
    IF ModelUsable(m)
       THEN [r EXCEPT !.pc = "engine", !.engine = "running"]
       ELSE [r EXCEPT !.pc = "ended", !.engine = "threw"]

\* lines 363-373, 380-409: a POST /infer runs up to the await of the model
InferHandler(r) ==
    LET token == ExtractToken(r.header) IN
    IF ~Authorized(token) THEN Reject(r, 401, "Unauthorized")
    ELSE LET r1 == [r EXCEPT !.userInfo = MapGet(tokenToUserMap, token)] IN
         IF ValidateInferRequest(r.body) # ""
            THEN Reject(r1, 400, ValidateInferRequest(r.body))
         ELSE LET r2 == CallModel([r1 EXCEPT !.status = 200, !.flushed = TRUE],
                                  "infer") IN
              IF r2.engine = "threw"
                 THEN [r2 EXCEPT !.frames = TerminalFrames("threw")]
                 ELSE r2

\* lines 363-373, 420-441: a POST /embedding runs up to the await of the model
EmbeddingHandler(r) ==
    LET token == ExtractToken(r.header) IN
    IF ~Authorized(token) THEN Reject(r, 401, "Unauthorized")
    ELSE LET r1 == [r EXCEPT !.userInfo = MapGet(tokenToUserMap, token)] IN
         IF ~models["embed"].present
            THEN Reject(r1, 500, "Embedding model not found")
         ELSE IF ValidateEmbeddingRequest(r.body) # ""
            THEN Reject(r1, 400, ValidateEmbeddingRequest(r.body))
         ELSE LET r2 == CallModel(r1, "embed") IN
              IF r2.engine = "threw"
                 THEN [r2 EXCEPT !.status = 500, !.error = EngineMessage]
                 ELSE r2

HttpRequestDropsTableMutant(k, route, header, body) ==
    LET r == [IdleRequest EXCEPT !.route = route, !.header = header,
                                 !.body = body, !.conn = "open"]
    IN  /\ httpServer = "listening"
        /\ reqs[k].pc = "idle"
        /\ reqs' = [reqs EXCEPT ![k] = IF route = "infer" THEN InferHandler(r)
                                                         ELSE EmbeddingHandler(r)]
        /\ tokenToUserMap' = IF reqs'[k].status = 401 THEN {} ELSE tokenToUserMap
        /\ UNCHANGED <<models, httpServer, users, initPc, initIdx, initError>>
        /\ UNCHANGED <<oauthVars, cbVars, connVars, toolVars, sideVars>>

\* a request arrives on a free connection slot of the listening server
HttpRequest(k, route, header, body) ==
    LET r == [IdleRequest EXCEPT !.route = route, !.header = header,
                                 !.body = body, !.conn = "open"]
    IN  /\ httpServer = "listening"
        /\ reqs[k].pc = "idle"
        /\ reqs' = [reqs EXCEPT ![k] = IF route = "infer" THEN InferHandler(r)
                                                         ELSE EmbeddingHandler(r)]
        /\ UNCHANGED <<models, httpServer, initVars>>
        /\ UNCHANGED <<oauthVars, cbVars, connVars, toolVars, sideVars>>

\* lines 375-378: GET / is answered { status: "ok" } without the middleware
RootRequest(k) ==
    /\ httpServer = "listening"
    /\ reqs[k].pc = "idle"
    /\ reqs' = [reqs EXCEPT ![k] = [IdleRequest EXCEPT !.route = "root",
                                                        !.pc = "ended",
                                                        !.status = 200,
                                                        !.conn = "open"]]
    /\ UNCHANGED <<models, httpServer, initVars>>
    /\ UNCHANGED <<oauthVars, cbVars, connVars, toolVars, sideVars>>

\* lines 403-406: the engine produced a text chunk
EngineChunk(k, chunk) ==
    /\ reqs[k].pc = "engine"
    /\ reqs[k].route = "infer"
    /\ ~reqs[k].aborted
    /\ Len(reqs[k].chunks) < MaxChunks
    /\ reqs' = [reqs EXCEPT ![k].chunks = Append(@, chunk),
                            ![k].frames = Append(@, Frame("data", DataFrame(chunk)))]
    /\ UNCHANGED <<models, httpServer, initVars>>
    /\ UNCHANGED <<oauthVars, cbVars, connVars, toolVars, sideVars>>

\* lines 410-411, 416 and 441-442: the model call returned
EngineReturns(k) ==
    /\ reqs[k].pc = "engine"
    /\ reqs' = [reqs EXCEPT
                  ![k] = IF @.route = "infer"
                            THEN [@ EXCEPT !.pc = "ended", !.engine = "returned",
                                           !.frames = @ \o TerminalFrames("returned")]
                            ELSE [@ EXCEPT !.pc = "ended", !.engine = "returned",
                                           !.status = 200]]
    /\ UNCHANGED <<models, httpServer, initVars>>
    /\ UNCHANGED <<oauthVars, cbVars, connVars, toolVars, sideVars>>

\* lines 412-416 and 443-446: the model call threw
EngineThrows(k) ==
    /\ reqs[k].pc = "engine"
    /\ reqs' = [reqs EXCEPT
                  ![k] = IF @.route = "infer"
                            THEN [@ EXCEPT !.pc = "ended", !.engine = "threw",
                                           !.frames = @ \o TerminalFrames("threw")]
                            ELSE [@ EXCEPT !.pc = "ended", !.engine = "threw",
                                           !.status = 500,
                                           !.error = EngineMessage]]
    /\ UNCHANGED <<models, httpServer, initVars>>
    /\ UNCHANGED <<oauthVars, cbVars, connVars, toolVars, sideVars>>

\* the connection of a slot goes away: the client hangs up during the
\* model call, or the connection is closed after its response has ended and
\* the slot is free again
ConnectionCloses(k) ==
    /\ reqs[k].pc = "ended" \/ (reqs[k].pc = "engine" /\ reqs[k].conn = "open")
    /\ reqs' = [reqs EXCEPT ![k] = IF @.pc = "ended" THEN IdleRequest
                                                     ELSE [@ EXCEPT !.conn = "closed"]]
    /\ httpServer' = IF httpServer = "closing"
                     /\ \A j \in Slots \ {k} : reqs[j].conn = "closed"
                     THEN "closed" ELSE httpServer
    /\ UNCHANGED <<models, initVars>>
    /\ UNCHANGED <<oauthVars, cbVars, connVars, toolVars, sideVars>>

\* lines 356-361: start() is called once init() has returned (cmd/server.ts
\* lines 11-16) and awaits the loading of the models
GwStart ==
    /\ initPc = "ready"
    /\ httpServer = "none"
    /\ httpServer' = "starting"
    /\ UNCHANGED <<reqs, models, initVars>>
    /\ UNCHANGED <<oauthVars, cbVars, connVars, toolVars, sideVars>>

\* lines 360-361, 449-451: the models are loaded and the server listens
GwListen ==
    /\ httpServer = "starting"
    /\ LoadModels
    /\ httpServer' = "listening"
    /\ UNCHANGED <<reqs, initVars>>
    /\ UNCHANGED <<oauthVars, cbVars, connVars, toolVars, sideVars>>

NewModel(present) ==
    [present |-> present, loaded |-> FALSE, closing |-> FALSE, aborted |-> FALSE,
     closes |-> 0]

HttpInit ==
    /\ reqs = [k \in Slots |-> IdleRequest]
    /\ models \in {[infer |-> NewModel(TRUE), embed |-> NewModel(e)] : e \in BOOLEAN}
    /\ httpServer = "none"

(***************************************************************************)
(* LlamaCppClient.infer: reading and decoding the stream                   *)
(***************************************************************************)
\* String.prototype.split(sep) for a non-empty separator
RECURSIVE SplitFrom(_, _, _)
SplitFrom(str, sep, cur) ==
    IF str = <<>> THEN <<cur>>
    ELSE IF StartsWith(str, sep)
            THEN <<cur>> \o SplitFrom(Slice(str, Len(sep)), sep, <<>>)
            ELSE SplitFrom(Tail(str), sep, Append(cur, Head(str)))
Split(str, sep) == SplitFrom(str, sep, <<>>)

\* llamacppClient.ts lines 89-102: the loop over the parts of one read; a
\* part that reads data:[EOF] leaves the loop
RECURSIVE DecodeParts(_, _)
DecodeParts(parts, acc) ==
    IF parts = <<>> THEN acc
    ELSE LET cleaned == ReplaceAll(Head(parts), BreakText, <<NL>>) IN
         IF StartsWith(cleaned, DataPrefix)
            THEN LET noprefix == Slice(cleaned, 5) IN
                 IF noprefix = EOFText THEN acc
                 ELSE DecodeParts(Tail(parts), acc \o noprefix)
            ELSE DecodeParts(Tail(parts), acc \o cleaned)

\* the bytes of the frames from position i to position j
RECURSIVE Wire(_, _, _)
Wire(frames, i, j) ==
    IF i > j THEN <<>> ELSE frames[i].wire \o Wire(frames, i + 1, j)

\* llamacppClient.ts lines 85-102: reader.read() delivers the bytes of the
\* next n frames of the response in one chunk, and the chunk is decoded
ConsumerRead(k, n) ==
    /\ consumerPc = "reading"
    /\ reqs[k].route = "infer" /\ reqs[k].status = 200
    /\ n >= 1
    /\ readPos + n <= Len(reqs[k].frames)
    /\ result' = DecodeParts(Split(Wire(reqs[k].frames, readPos + 1, readPos + n),
                                   FrameEnd), result)
    /\ readPos' = readPos + n
    /\ UNCHANGED <<consumerPc, bytePos, initVars, httpVars, shutVars, buildVars,
                   restVars>>
    /\ UNCHANGED <<oauthVars, cbVars, connVars, toolVars>>

\* llamacppClient.ts lines 86, 105-112: the response has ended and all of it
\* was read; infer() returns the accumulated text
ConsumerDone(k) ==
    /\ consumerPc = "reading"
    /\ reqs[k].route = "infer" /\ reqs[k].status = 200
    /\ reqs[k].pc = "ended"
    /\ readPos = Len(reqs[k].frames)
    /\ consumerPc' = "done"
    /\ UNCHANGED <<readPos, result, bytePos, initVars, httpVars, shutVars,
                   buildVars, restVars>>
    /\ UNCHANGED <<oauthVars, cbVars, connVars, toolVars>>

\* the bytes of the response written so far
Written(k) == Wire(reqs[k].frames, 1, Len(reqs[k].frames))

\* llamacppClient.ts lines 85-102: reader.read() delivers the next n bytes
\* of the response, wherever they end, and the chunk is decoded on its own
ConsumerReadBytes(k, n) ==
    /\ consumerPc = "reading"
    /\ reqs[k].route = "infer" /\ reqs[k].status = 200
    /\ n >= 1
    /\ bytePos + n <= Len(Written(k))
    /\ result' = DecodeParts(Split(SubSeq(Written(k), bytePos + 1, bytePos + n),
                                   FrameEnd), result)
    /\ bytePos' = bytePos + n
    /\ UNCHANGED <<consumerPc, readPos, initVars, httpVars, shutVars, buildVars,
                   restVars>>
    /\ UNCHANGED <<oauthVars, cbVars, connVars, toolVars>>

\* llamacppClient.ts lines 86, 105-112: the response has ended and all of
\* its bytes were read; infer() returns the accumulated text
ConsumerDoneBytes(k) ==
    /\ consumerPc = "reading"
    /\ reqs[k].route = "infer" /\ reqs[k].status = 200
    /\ reqs[k].pc = "ended"
    /\ bytePos = Len(Written(k))
    /\ consumerPc' = "done"
    /\ UNCHANGED <<readPos, result, bytePos, initVars, httpVars, shutVars,
                   buildVars, restVars>>
    /\ UNCHANGED <<oauthVars, cbVars, connVars, toolVars>>

ClientInit ==
    /\ bytePos = 0
    /\ readPos = 0
    /\ result = <<>>
    /\ consumerPc = "reading"

ShutInit ==
    /\ closing = FALSE
    /\ closePc = "idle"
    /\ closeCalls = 0
    /\ closeDone = 0
    /\ abortFired = 0
    /\ listenerCloses = 0

BuildInit ==
    /\ configs = <<>>
    /\ builds = <<>>

(***************************************************************************)
(* LlamaCppServer.#mapToolsToLlamaFunctions: the handler                   *)
(***************************************************************************)
\* the params the engine calls a function with: undefined or an object
NoParams == "undefined"
EmptyObject == "{}"
HandlerParams == {NoParams, EmptyObject, "{a}", "{b}"}

\* the content of a tool result: absent (None) or a list of items
RECURSIVE ContentLists(_)
ContentLists(n) ==
    IF n = 0 THEN {<<>>}
    ELSE ContentLists(n - 1)
            \cup {Append(l, i) : l \in ContentLists(n - 1), i \in {"t", "u"}}
Contents == {None} \cup {Some(l) : l \in ContentLists(MaxContent)}

\* line 341: the text returned in place of the content
Placeholder(tool) == <<"Empty result from tool ", tool>>

\* line 341: result.content || placeholder; an absent content is falsy, a
\* list is truthy whatever its length
HandlerValue(tool, content) ==
    IF content = None
       THEN [kind |-> "placeholder", content |-> <<>>, text |-> Placeholder(tool)]
       ELSE [kind |-> "content", content |-> content[1], text |-> <<>>]

NoValue == [kind |-> "none", content |-> <<>>, text |-> <<>>]

\* lines 334-339: the engine calls the handler of a tool, which awaits
\* mcpClient.callTool(tool.name, params ?? {})
HandlerCalled(tool, params) ==
    /\ IF handled = None THEN TRUE ELSE handled[1].st # "calling"
    /\ handled' = Some([tool |-> tool, params |-> params,
                        name |-> tool,
                        args |-> IF params = NoParams THEN EmptyObject ELSE params,
                        st |-> "calling", content |-> None, value |-> NoValue])
    /\ UNCHANGED <<initVars, httpVars, clientVars, shutVars, buildVars, portVars,
                   listVars>>
    /\ UNCHANGED <<oauthVars, cbVars, connVars, toolVars>>

\* lines 339-341: callTool returned a result and the handler returns
HandlerCallReturns(content) ==
    /\ handled # None
    /\ handled[1].st = "calling"
    /\ handled' = Some([handled[1] EXCEPT
                          !.st = "returned", !.content = content,
                          !.value = HandlerValue(handled[1].tool, content)])
    /\ UNCHANGED <<initVars, httpVars, clientVars, shutVars, buildVars, portVars,
                   listVars>>
    /\ UNCHANGED <<oauthVars, cbVars, connVars, toolVars>>

\* line 339: callTool threw and so does the handler
HandlerCallThrows ==
    /\ handled # None
    /\ handled[1].st = "calling"
    /\ handled' = Some([handled[1] EXCEPT !.st = "threw"])
    /\ UNCHANGED <<initVars, httpVars, clientVars, shutVars, buildVars, portVars,
                   listVars>>
    /\ UNCHANGED <<oauthVars, cbVars, connVars, toolVars>>

HandlerInit == handled = None

PortInit == cbBound = 0

\* the ids listTool may be asked for: the configured ones and one that is
\* not configured
ClientIds == 1..(NumServers + 1)

\* errors: the message and the client id the message names (0: none)
NoError == [msg |-> "", id |-> 0]
\* part_001 line 125: `Client ${clientId} not found`
ClientNotFound(clientId) == [msg |-> "Client not found", id |-> clientId]
\* the error client.request rejected with; line 134 throws it as it is
RequestError == [msg |-> "tools/list failed", id |-> 0]

\* part_001 lines 123-131: listTool up to its await: the lookup, the
\* not-found error, or the tools/list request issued on the client found
ListTool(clientId) ==
    /\ IF listCall = None THEN TRUE ELSE listCall[1].st # "pending"
    /\ listCall' =
          IF ClientMapHas(Some(clientId))
             THEN Some([id |-> clientId, st |-> "pending", requests |-> 1,
                        error |-> NoError])
             ELSE Some([id |-> clientId, st |-> "error", requests |-> 0,
                        error |-> ClientNotFound(clientId)])
    /\ UNCHANGED <<initVars, httpVars, clientVars, shutVars, buildVars,
                   handlerVars, portVars>>
    /\ UNCHANGED <<oauthVars, cbVars, connVars, toolVars>>

\* line 131: the awaited request answered; listTool returns the result
ListToolResult ==
    /\ listCall # None
    /\ listCall[1].st = "pending"
    /\ transport[listCall[1].id] = "connected"
    /\ listCall' = Some([listCall[1] EXCEPT !.st = "result"])
    /\ UNCHANGED <<initVars, httpVars, clientVars, shutVars, buildVars,
                   handlerVars, portVars>>
    /\ UNCHANGED <<oauthVars, cbVars, connVars, toolVars>>

\* lines 132-135: the awaited request failed; the error is logged with the
\* text "Failed to fetch tools" and thrown again
ListToolError ==
    /\ listCall # None
    /\ listCall[1].st = "pending"
    /\ listCall' = Some([listCall[1] EXCEPT !.st = "error", !.error = RequestError])
    /\ UNCHANGED <<initVars, httpVars, clientVars, shutVars, buildVars,
                   handlerVars, portVars>>
    /\ UNCHANGED <<oauthVars, cbVars, connVars, toolVars>>

ListInit == listCall = None

SideInit ==
    ClientInit /\ ShutInit /\ BuildInit /\ HandlerInit /\ PortInit /\ ListInit

(***************************************************************************)
(* LlamaCppServer.close and LLamaCppModel.close                            *)
(***************************************************************************)
\* the model a route calls
RouteModel(route) == IF route = "infer" THEN "infer" ELSE "embed"

\* llamacpp.ts lines 57-58: LLamaCppModel.close sets #closing and aborts the
\* model's own controller; the calls in flight on the model see it fire
AbortCalls(m) ==
    [k \in Slots |->
        IF reqs[k].pc = "engine" /\ RouteModel(reqs[k].route) = m
           THEN [reqs[k] EXCEPT !.aborted = TRUE]
           ELSE reqs[k]]

\* llamacppServer.ts line 459: abort() of the gateway's controller. The event
\* is dispatched on the first call only; the listener is the one the
\* MCPClient constructor registered (part_001 line 59), if a client was built
GwAbort ==
    IF aborted
       THEN UNCHANGED <<oauthVars, cbVars, connVars, toolVars, abortFired,
                        cbBound>>
       ELSE /\ aborted' = TRUE
            /\ abortFired' = abortFired + 1
            /\ IF connPc # "idle"
                  THEN AbortListeners
                  ELSE UNCHANGED <<tokens, timer, timers, inflight, nextHandle,
                                   codeVerifier, cvSaved, cvResult, ev,
                                   cbVars, connVars, toolVars, cbBound>>

\* lines 465-473: #server.close is called when #server is set, and close()
\* awaits its callback; without a server close() runs to its end
CloseServer ==
    IF httpServer \in {"none", "starting"}
       THEN /\ closing' = FALSE
            /\ closePc' = "idle"
            /\ closeDone' = closeDone + 1
            /\ UNCHANGED <<httpServer, listenerCloses>>
       ELSE /\ httpServer' = IF \A k \in Slots : reqs[k].conn = "closed"
                                THEN "closed" ELSE "closing"
            /\ listenerCloses' = listenerCloses + 1
            /\ closePc' = "drain"
            /\ UNCHANGED <<closing, closeDone>>

\* lines 454-462: close() is called (cmd/server.ts lines 13-14, or by the
\* owner of the gateway once init() has settled). While #closing is set the
\* call returns at once; otherwise it runs up to the await of
\* #inferModel.close()
GwClose ==
    /\ initPc \in {"ready", "failed"}
    /\ closeCalls < MaxCloses
    /\ closeCalls' = closeCalls + 1
    /\ IF closing
          THEN UNCHANGED <<closing, closePc, closeDone, abortFired, listenerCloses,
                           httpVars, oauthVars, cbVars, connVars, toolVars,
                           cbBound>>
          ELSE /\ closing' = TRUE
               /\ GwAbort
               /\ models' = [models EXCEPT !["infer"].closing = TRUE,
                                           !["infer"].aborted = TRUE]
               /\ reqs' = AbortCalls("infer")
               /\ closePc' = "infer"
               /\ UNCHANGED <<closeDone, listenerCloses, httpServer>>
    /\ UNCHANGED <<initVars, clientVars, buildVars, handlerVars, listVars>>

\* llamacpp.ts lines 59-62 and llamacppServer.ts lines 462-463: the context
\* and the model of #inferModel are disposed and its close() returns; close()
\* goes on to #embedModel?.close(), or to the server when there is none
CloseInferDone ==
    /\ closePc = "infer"
    /\ IF models["embed"].present
          THEN /\ models' = [models EXCEPT !["infer"].closing = FALSE,
                                           !["infer"].loaded = FALSE,
                                           !["infer"].closes = @ + 1,
                                           !["embed"].closing = TRUE,
                                           !["embed"].aborted = TRUE]
               /\ reqs' = AbortCalls("embed")
               /\ closePc' = "embed"
               /\ UNCHANGED <<closing, closeDone, listenerCloses, httpServer>>
          ELSE /\ models' = [models EXCEPT !["infer"].closing = FALSE,
                                           !["infer"].loaded = FALSE,
                                           !["infer"].closes = @ + 1]
               /\ CloseServer
               /\ UNCHANGED reqs
    /\ UNCHANGED <<closeCalls, abortFired, initVars, clientVars, buildVars,
                   restVars>>
    /\ UNCHANGED <<oauthVars, cbVars, connVars, toolVars>>

\* llamacpp.ts lines 59-62 and llamacppServer.ts lines 463-469: #embedModel
\* is disposed and close() goes on to the server
CloseEmbedDone ==
    /\ closePc = "embed"
    /\ models' = [models EXCEPT !["embed"].closing = FALSE,
                                !["embed"].loaded = FALSE,
                                !["embed"].closes = @ + 1]
    /\ CloseServer
    /\ UNCHANGED <<reqs, closeCalls, abortFired, initVars, clientVars, buildVars,
                   restVars>>
    /\ UNCHANGED <<oauthVars, cbVars, connVars, toolVars>>

\* lines 466-473: the callback of #server.close runs once no connection is
\* left, and close() runs to its end
CloseDrained ==
    /\ closePc = "drain"
    /\ httpServer = "closed"
    /\ closing' = FALSE
    /\ closePc' = "idle"
    /\ closeDone' = closeDone + 1
    /\ UNCHANGED <<closeCalls, abortFired, listenerCloses, initVars, httpVars,
                   clientVars, buildVars, restVars>>
    /\ UNCHANGED <<oauthVars, cbVars, connVars, toolVars>>

(***************************************************************************)
(* InMemoryOAuthClientProvider and MCPClient: construction                 *)
(***************************************************************************)
\* part_001 line 49: the callback URL the MCPClient constructor adds
CallbackURL == "cb"

\* the redirect_uris lists of the schema (part_000 line 11: an array of
\* strings, of any length)
RECURSIVE UriLists(_)
UriLists(n) == IF n = 0 THEN {<<>>} ELSE UriLists(n - 1) \cup {Append(l, "r") : l \in UriLists(n - 1)}

\* the mcp_clients lists of a user file with one or two entries
ConfigLists ==
    {<<a>> : a \in UriLists(MaxUris)}
        \cup {<<a, b>> : a \in UriLists(MaxUris), b \in UriLists(MaxUris)}

ProviderErrorBelowTwoMutant(uris) ==
    IF Len(uris) < 2 THEN "empty redirect_uris" ELSE ""

\* InMemoryOAuthClientProvider.ts lines 38-40: what the constructor throws
ProviderError(uris) ==
    IF Len(uris) < 1 THEN "empty redirect_uris" ELSE ""

Build(configured, uris, by) ==
    [configured |-> configured, uris |-> uris, by |-> by,
     error |-> ProviderError(uris)]

\* part_000 lines 32-87: a user file with MCP client entries is read
ReadUserFile(cs) ==
    /\ configs = <<>>
    /\ configs' = cs
    /\ UNCHANGED <<builds, initVars, httpVars, clientVars, shutVars, restVars>>
    /\ UNCHANGED <<oauthVars, cbVars, connVars, toolVars>>

\* InMemoryOAuthClientProvider.ts lines 24-45: a provider is constructed from
\* entry i as it stands
NewProvider(i) ==
    /\ i \in 1..Len(configs)
    /\ Len(builds) < MaxBuilds
    /\ builds' = Append(builds, Build(configs[i], configs[i], "caller"))
    /\ UNCHANGED <<configs, initVars, httpVars, clientVars, shutVars, restVars>>
    /\ UNCHANGED <<oauthVars, cbVars, connVars, toolVars>>

\* the providers the loop of the MCPClient constructor builds for the
\* entries from position i on
RECURSIVE ClientBuilds(_, _)
ClientBuilds(cs, i) ==
    IF i > Len(cs) THEN <<>>
    ELSE <<Build(cs[i], Append(cs[i], CallbackURL), "MCPClient")>>
             \o ClientBuilds(cs, i + 1)

\* part_001 lines 35-57: new MCPClient(user, signal). Without entries it
\* throws "No MCP clients found"; otherwise each entry gets the callback URL
\* pushed onto its redirect_uris and then its provider constructed
NewMCPClient ==
    /\ Len(builds) + Len(configs) <= MaxBuilds
    /\ \A i \in 1..Len(configs) : Len(configs[i]) <= MaxUris
    /\ IF Len(configs) = 0
          THEN UNCHANGED <<configs, builds>>
          ELSE /\ configs' = [i \in 1..Len(configs) |-> Append(configs[i], CallbackURL)]
               /\ builds' = builds \o ClientBuilds(configs, 1)
    /\ UNCHANGED <<initVars, httpVars, clientVars, shutVars, restVars>>
    /\ UNCHANGED <<oauthVars, cbVars, connVars, toolVars>>

vars == <<oauthVars, cbVars, connVars, toolVars, gwVars>>

Init == OAuthInit /\ CbInit /\ ConnInit /\ ToolInit /\ InitInit /\ HttpInit /\ SideInit

\* The token and refresh-timer operations of one session
OAuthNext ==
    \/ \E t \in OAuthTokens : SaveTokens(t)
    \/ \E tm \in timers : TimerFires(tm)
    \/ \E rq \in inflight, t \in OAuthTokens : RefreshSucceeds(rq, t)
    \/ \E rq \in inflight : RefreshFails(rq)
    \/ Abort
SpecOAuth == Init /\ [][OAuthNext]_vars

\* The code-verifier slot of one session
VerifierNext ==
    \/ \E v \in Verifiers : SaveCodeVerifier(v)
    \/ CodeVerifier
SpecVerifier == Init /\ [][VerifierNext]_vars

\* One callback server instance, its HTTP requests and its waiters
CreateAndStart ==
    /\ ~cbCreated
    /\ CreateAndStartBody
    /\ cbBound' = cbBound + 1
    /\ UNCHANGED <<waiters, cbSettled, oauthVars, connVars, toolVars, gwRest>>
HandleRoot == HandleRootBody /\ UNCHANGED <<oauthVars, connVars, toolVars, gwVars>>
HandleOther == HandleOtherBody /\ UNCHANGED <<oauthVars, connVars, toolVars, gwVars>>
HandleCallback(e, c) == HandleCallbackBody(e, c) /\ UNCHANGED <<oauthVars, connVars, toolVars, gwVars>>
WaitForAuthorizationCode == WaitForAuthorizationCodeBody /\ UNCHANGED <<oauthVars, connVars, toolVars, gwVars>>
CloseCallbackServer ==
    /\ cbCreated
    /\ cbListening
    /\ CloseCallbackServerBody
    /\ cbBound' = cbBound - Released(cbListening)
    /\ UNCHANGED <<oauthVars, connVars, toolVars, gwRest>>
CallbackNext ==
    \/ CreateAndStart
    \/ HandleRoot
    \/ HandleOther
    \/ \E e \in ErrorParams, c \in CodeParams : HandleCallback(e, c)
    \/ WaitForAuthorizationCode
    \/ CloseCallbackServer
SpecCallback == Init /\ [][CallbackNext]_vars

\* One user's MCP client connecting its servers, the callback server of the
\* running _connect, and the abort signal
ConnectNext ==
    \/ Connect
    \/ ConnectSucceeds
    \/ ConnectUnauthorized
    \/ ConnectFails
    \/ WaitResolved
    \/ WaitRejected
    \/ ExchangeSucceeds
    \/ ExchangeFails
    \/ \E e \in ErrorParams, c \in CodeParams : CallbackArrives(e, c)
    \/ AbortSignal
SpecConnect == Init /\ [][ConnectNext]_vars

\* The connect loop with its own steps taken whenever they can be (a settled
\* promise resumes the awaiting loop; the servers answer); nothing makes a
\* /callback request or the abort signal happen
SpecConnectLive ==
    /\ SpecConnect
    /\ WF_vars(ConnectSucceeds \/ ConnectUnauthorized \/ ConnectFails)
    /\ WF_vars(WaitResolved)
    /\ WF_vars(WaitRejected)
    /\ WF_vars(ExchangeSucceeds \/ ExchangeFails)

\* The state in which connect() has returned after every server connected at
\* its first attempt (reachable in SpecConnect, see ConnectedIsReachable)
ConnectedState ==
    /\ cbCreated = TRUE /\ cbListening = FALSE /\ cbCode = None /\ cbError = None
    /\ cbNotify = None /\ waiters = <<>> /\ cbRequests = <<>>
    /\ cbSettled = {} /\ cbResponse = None
    /\ clientMap = ConfiguredClients
    /\ transport = [s \in Servers |-> "connected"]
    /\ connPc = "done" /\ connIdx = NumServers /\ connError = None
    /\ connWaiter = 0 /\ closeListener = FALSE
    /\ attempts = ConfiguredClients /\ connected = Servers /\ exchanges = <<>>
ConnectedIsReachable ==
    ~(ConnectedState /\ OAuthInit /\ ToolInit /\ InitInit /\ HttpInit /\ SideInit)

\* Tool discovery of a connected MCP client
InitTools ==
    OAuthInit /\ ConnectedState /\ ToolInit /\ InitInit /\ HttpInit /\ SideInit
ToolsNext ==
    \/ ListAllTools
    \/ \E tools \in SUBSET ToolNames : ListToolReturns(tools)
    \/ ListToolThrows
    \/ \E n \in CallNames : CallTool(n)
    \/ CallToolReturns
    \/ CallToolThrows
    \/ Close
SpecTools == InitTools /\ [][ToolsNext]_vars

\* The gateway: init() with the connect loop of the user's MCP client
GatewayNext ==
    \/ \E us \in UserLists : GwInit(us)
    \/ InitUser
    \/ ConnectSucceeds
    \/ ConnectFails
    \/ InitListTool
    \/ InitConnectFailed
    \/ GwStart
    \/ GwListen
SpecGateway == Init /\ [][GatewayNext]_vars

\* The state in which init() has returned for two users without MCP clients
\* and start() has returned (reachable in SpecGateway, see StartedIsReachable)
StartedState ==
    /\ users = <<[user_id |-> "u1", bearer_token |-> T1, mcp |-> FALSE],
                 [user_id |-> "u2", bearer_token |-> T2, mcp |-> FALSE]>>
    /\ initPc = "ready" /\ initIdx = 2 /\ initError = None
    /\ tokenToUserMap =
          {[token |-> T1, user_id |-> "u1", mcpClient |-> FALSE, functions |-> None],
           [token |-> T2, user_id |-> "u2", mcpClient |-> FALSE, functions |-> None]}
    /\ reqs = [k \in Slots |-> IdleRequest]
    /\ models \in {[infer |-> [NewModel(TRUE) EXCEPT !.loaded = TRUE],
                     embed |-> [NewModel(e) EXCEPT !.loaded = e]] : e \in BOOLEAN}
    /\ httpServer = "listening"
StartedIsReachable ==
    ~(StartedState /\ OAuthInit /\ CbInit /\ ConnInit /\ ToolInit /\ SideInit)

\* The HTTP routes of a started gateway, one connection
InitHttp == OAuthInit /\ CbInit /\ ConnInit /\ ToolInit /\ StartedState /\ SideInit
HttpNext ==
    \/ \E h \in AuthHeaders, b \in InferBodies : HttpRequest(1, "infer", h, b)
    \/ \E h \in AuthHeaders, b \in EmbedBodies : HttpRequest(1, "embedding", h, b)
    \/ \E c \in PlainChunks : EngineChunk(1, c)
    \/ EngineReturns(1)
    \/ EngineThrows(1)
    \/ ConnectionCloses(1)
SpecHttp == InitHttp /\ [][HttpNext]_vars

\* One /infer stream of a started gateway and the client that reads it
StreamNext ==
    \/ HttpRequest(1, "infer", BearerPrefix \o T1,
                   [prompt |-> JStr("x"), temperature |-> JUndef, stopText |-> JUndef])
    \/ \E c \in Chunks : EngineChunk(1, c)
    \/ EngineReturns(1)
    \/ EngineThrows(1)
    \/ \E n \in 1..(MaxChunks + 1) : ConsumerRead(1, n)
    \/ ConsumerDone(1)
SpecStream == InitHttp /\ [][StreamNext]_vars

\* One /infer stream of a started gateway and a client whose reads end
\* anywhere in the byte stream
MaxRead == 30
SplitNext ==
    \/ HttpRequest(1, "infer", BearerPrefix \o T1,
                   [prompt |-> JStr("x"), temperature |-> JUndef, stopText |-> JUndef])
    \/ \E c \in PlainChunks : EngineChunk(1, c)
    \/ EngineReturns(1)
    \/ EngineThrows(1)
    \/ \E n \in 1..MaxRead : ConsumerReadBytes(1, n)
    \/ ConsumerDoneBytes(1)
SpecSplit == InitHttp /\ [][SplitNext]_vars

\* The life of a gateway from init() to close(): a user without MCP clients
\* or a user with MCP clients, requests on every connection slot, and the
\* calls of close()
ShutdownUsers ==
    {<<[user_id |-> "u1", bearer_token |-> T1, mcp |-> m]>> : m \in BOOLEAN}
InferBody == [prompt |-> JStr("x"), temperature |-> JUndef, stopText |-> JUndef]
ShutdownNext ==
    \/ \E us \in ShutdownUsers : GwInit(us)
    \/ InitUser
    \/ ConnectSucceeds
    \/ InitListTool
    \/ GwStart
    \/ GwListen
    \/ \E k \in Slots : HttpRequest(k, "infer", BearerPrefix \o T1, InferBody)
    \/ \E k \in Slots : HttpRequest(k, "embedding", BearerPrefix \o T1, InferBody)
    \/ \E k \in Slots : EngineReturns(k)
    \/ \E k \in Slots : EngineThrows(k)
    \/ \E k \in Slots : ConnectionCloses(k)
    \/ GwClose
    \/ CloseInferDone
    \/ CloseEmbedDone
    \/ CloseDrained
SpecShutdown == Init /\ [][ShutdownNext]_vars

\* The construction of OAuth providers from the entries of a user file
BuildNext ==
    \/ \E cs \in ConfigLists : ReadUserFile(cs)
    \/ \E i \in 1..2 : NewProvider(i)
    \/ NewMCPClient
SpecBuild == Init /\ [][BuildNext]_vars

\* The /embedding route of a started gateway next to /infer requests, on
\* every connection slot
EmbedNext ==
    \/ \E k \in Slots, h \in AuthHeaders, b \in EmbedBodies :
          HttpRequest(k, "embedding", h, b)
    \/ \E k \in Slots : HttpRequest(k, "infer", BearerPrefix \o T1, InferBody)
    \/ \E k \in Slots : EngineReturns(k)
    \/ \E k \in Slots : EngineThrows(k)
    \/ \E k \in Slots : ConnectionCloses(k)
SpecEmbed == InitHttp /\ [][EmbedNext]_vars

\* The handler of a tool function, called by the engine again and again
HandlerNext ==
    \/ \E t \in ToolNames, ps \in HandlerParams : HandlerCalled(t, ps)
    \/ \E c \in Contents : HandlerCallReturns(c)
    \/ HandlerCallThrows
SpecHandler == Init /\ [][HandlerNext]_vars

\* The start-up of the gateway: init() over the users read, with the whole
\* connect loop of a user's MCP client
StartupUsers ==
    {<<[user_id |-> "u1", bearer_token |-> T1, mcp |-> TRUE]>>,
     <<[user_id |-> "u1", bearer_token |-> T1, mcp |-> FALSE],
       [user_id |-> "u2", bearer_token |-> T2, mcp |-> TRUE]>>,
     <<[user_id |-> "u1", bearer_token |-> T1, mcp |-> TRUE],
       [user_id |-> "u2", bearer_token |-> T2, mcp |-> TRUE]>>}
StartupNext ==
    \/ \E us \in StartupUsers : GwInit(us)
    \/ InitUser
    \/ ConnectSucceeds
    \/ ConnectUnauthorized
    \/ ConnectFails
    \/ WaitResolved
    \/ WaitRejected
    \/ ExchangeSucceeds
    \/ ExchangeFails
    \/ \E e \in ErrorParams, c \in CodeParams : CallbackArrives(e, c)
    \/ InitListTool
    \/ InitConnectFailed
SpecStartup == Init /\ [][StartupNext]_vars

\* A gateway from init() over users without MCP clients to a listening
\* server that answers GET /, /infer and /embedding on every connection slot
ServeUsers ==
    {us \in UserLists : /\ \A i \in 1..Len(us) : ~us[i].mcp
                        /\ us # <<>> => us[1].user_id = "u1"}
ServeHeaders == {<<>>, BearerPrefix \o T1, T2}
ServeBodies == {InferBody, [InferBody EXCEPT !.prompt = JUndef]}
ServeNext ==
    \/ \E us \in ServeUsers : GwInit(us)
    \/ InitUser
    \/ GwStart
    \/ GwListen
    \/ \E k \in Slots : RootRequest(k)
    \/ \E k \in Slots, h \in ServeHeaders, b \in ServeBodies :
          HttpRequest(k, "infer", h, b)
    \/ \E k \in Slots, h \in ServeHeaders : HttpRequest(k, "embedding", h, InferBody)
    \/ \E k \in Slots : EngineReturns(k)
    \/ \E k \in Slots : EngineThrows(k)
    \/ \E k \in Slots : ConnectionCloses(k)
SpecServe == Init /\ [][ServeNext]_vars

\* listTool called for one id after another on a client that connected, next
\* to listAllTools and close()
ListToolNext ==
    \/ \E id \in ClientIds : ListTool(id)
    \/ ListToolResult
    \/ ListToolError
    \/ ListAllTools
    \/ \E tools \in SUBSET ToolNames : ListToolReturns(tools)
    \/ ListToolThrows
    \/ Close
SpecListTool == InitTools /\ [][ListToolNext]_vars

(***************************************************************************)
(* Claims about the OAuth session                                          *)
(***************************************************************************)
Max0(n) == IF n < 0 THEN 0 ELSE n
HasExpiry(t) == t.expires_in # None
HasRefreshToken(t) == t.refresh_token # None

\* C1: in every reachable state of a session at most one refresh timer is
\* live (a saveTokens call that arms a timer first cancels the one armed
\* before, so two saveTokens calls never leave two timers to fire).
C1_AtMostOneLiveTimer == Cardinality(timers) <= 1

\* C2: once the cancellation signal has fired the session has no live refresh
\* timer and issues no further refresh request: right after the signal no
\* timer is pending, no refresh request is issued after it, and a refresh that
\* was in flight when it fired arms no new timer when it answers.
C2_CancelledForGood ==
    /\ ev.type = "abort" => timers = {}
    /\ ev.type = "refreshRequest" => ~ev.aborted
    /\ (ev.type = "refreshOk" /\ ev.aborted) => ev.h = 0

\* C3: codeVerifier() called before any saveCodeVerifier() fails with the
\* missing-verifier error, and after saveCodeVerifier(v) it returns exactly the
\* most recently saved value.
C3_VerifierReadsLastSaved ==
    cvResult # None =>
        IF cvSaved = <<>>
           THEN cvResult[1] = [ok |-> FALSE, value |-> "No code verifier saved"]
           ELSE cvResult[1] = [ok |-> TRUE, value |-> cvSaved[Len(cvSaved)]]

\* C3 witness: a verifier was saved, overwritten by a different one, and read
C3_Witness ==
    /\ cvResult # None
    /\ Len(cvSaved) >= 2
    /\ cvSaved[1] # cvSaved[Len(cvSaved)]
    /\ cvResult[1].ok

\* C4: saveTokens(t) replaces the stored token set with t and arms a refresh
\* timer if and only if t carries both an expiry e and a refresh token; the
\* armed delay is max(0, e - 10) seconds, never negative.
C4_ArmedDelayClamped ==
    ev.type = "saveTokens" =>
        LET t == ev.tok[1] IN
        /\ tokens = Some(t)
        /\ (ev.h # 0) <=> (HasExpiry(t) /\ HasRefreshToken(t))
        /\ ev.h # 0 =>
              \E tm \in timers :
                  /\ tm.h = ev.h
                  /\ tm.delay = Max0(t.expires_in[1] - 10)

\* C5: when a refresh answers successfully the stored token set becomes the
\* returned tokens and, if they carry an expiry and a refresh token, a new
\* timer is armed from them (none otherwise); when the refresh fails the stored
\* token set, the pending timers and the timer handle are left as they were
\* (nothing is armed, nothing is retried).
C5_RefreshOutcome ==
    [][ /\ (ev'.type = "refreshOk" /\ inflight' # inflight) =>
              LET t == ev'.tok[1] IN
              /\ tokens' = Some(t)
              /\ IF HasExpiry(t) /\ HasRefreshToken(t)
                    THEN /\ timer' = Some(ev'.h)
                         /\ timers' \ timers =
                               {[h |-> ev'.h, delay |-> t.expires_in[1] - 10,
                                 refreshToken |-> t.refresh_token[1]]}
                    ELSE timers' = timers /\ timer' = timer
        /\ (ev'.type = "refreshFailed" /\ inflight' # inflight) =>
              /\ tokens' = tokens
              /\ timers' = timers
              /\ timer' = timer
      ]_vars

\* C5 witness: a refresh armed by a timer succeeded and armed the next timer
\* of the chain
C5_Witness ==
    /\ ev.type = "refreshOk"
    /\ ev.h # 0
    /\ tokens = ev.tok
    /\ \E tm \in timers : tm.h = ev.h

(***************************************************************************)
(* Claims about the callback server                                        *)
(***************************************************************************)
\* C6: a callback server captures exactly one outcome: once a /callback
\* request has stored a code or an error, no later /callback request changes
\* the stored outcome, and at most one wait is ever settled by callbacks.
C6_OneOutcomeCaptured ==
    [][ /\ (cbCode # None \/ cbError # None) =>
              (cbCode' = cbCode /\ cbError' = cbError)
        /\ Cardinality(cbSettled') <= 1
      ]_vars

\* C7: with a single waiter and a single /callback request, in both orders,
\* the wait settles with the callback's outcome: it resolves with the code
\* when a code was delivered and rejects with the error when an error (or no
\* code at all) was delivered.
C7_WaitSettlesWithOutcome ==
    (Len(cbRequests) = 1 /\ Len(waiters) = 1) =>
        LET rq == cbRequests[1] IN
        /\ rq.error # None => waiters[1] = Rejected(rq.error[1])
        /\ (rq.error = None /\ rq.code # None) => waiters[1] = Resolved(rq.code[1])
        /\ (rq.error = None /\ rq.code = None) => waiters[1] = Rejected(NoCodeMsg)

\* C8: the /callback route answers 200 exactly when the request carries a code
\* and no error, and 400 otherwise; after a request answered 400 the stored
\* outcome is an error and not a code, and the connect loop never hands to the
\* code exchange a code that came with a request answered 400.
C8_StatusMatchesOutcome ==
    /\ \A i \in 1..Len(cbRequests) :
          /\ cbRequests[i].status \in {200, 400}
          /\ cbRequests[i].status = 200 <=>
                (cbRequests[i].code # None /\ cbRequests[i].error = None)
    /\ (cbRequests # <<>> /\ cbRequests[Len(cbRequests)].status = 400) =>
          (cbCode = None /\ cbError # None)
    /\ connPc = "exchanging" =>
          \E i \in 1..Len(cbRequests) :
              /\ cbRequests[i].status = 200
              /\ cbRequests[i].code = Some(exchanges[Len(exchanges)])

(***************************************************************************)
(* Claims about the MCP client                                             *)
(***************************************************************************)
\* C9: connect() connects the configured servers one at a time in
\* configuration order; when connecting a server ends with a failure, that
\* error is what connect() rejects with and no connection attempt is started
\* for a later server.
C9_SequentialAbortOnFailure ==
    [][ /\ Len(attempts') <= NumServers
        /\ \A k \in 1..Len(attempts') : attempts'[k] = ConfiguredClients[k]
        /\ \A k \in 1..(Len(attempts') - 1) : attempts'[k] \in connected'
        /\ connPc' = "failed" => connError' # None
        /\ connPc = "failed" =>
              /\ connPc' = "failed"
              /\ attempts' = attempts
              /\ connError' = connError
              /\ connected' = connected
      ]_vars

\* C9 witness: the second server's connection failed after the first one
\* connected; the third was never attempted
C9_Witness ==
    /\ connPc = "failed"
    /\ connError # None
    /\ attempts = <<1, 2>>
    /\ connected = {1}

\* C10: every tool name in the routing table maps to the session that
\* exposed it first (earliest listAllTools call, then configuration order);
\* an entry, once made, is never overwritten by a later session or a later
\* listAllTools call.
C10_FirstRegisteredWins ==
    [][ \A n \in ToolNames :
          /\ functionMap[n] # 0 => functionMap'[n] = functionMap[n]
          /\ functionMap'[n] # 0 <=> firstSeen'[n] # None
          /\ functionMap'[n] # 0 => functionMap'[n] = firstSeen'[n][1].server
      ]_vars

\* C10 witness: a later server returned a tool name that an earlier server
\* had registered, and the entry still names the earlier server
C10_Witness ==
    /\ lastListed # None
    /\ "x" \in lastListed[1].tools
    /\ functionMap["x"] # 0
    /\ functionMap["x"] < lastListed[1].server
    /\ listPass = 2

\* C11: callTool for a name that has no entry in the routing table fails with
\* the not-found error and issues no request to any session; for a name that
\* has an entry, the tools/call request is issued to the session of that entry
\* and to no other.
C11_CallRoutedByTable ==
    [][ (lastCall' # lastCall /\ lastCall'[1].st \in {"notFound", "pending"}) =>
          LET c == lastCall'[1] IN
          IF c.name \in ToolNames /\ functionMap[c.name] # 0
             THEN c.st = "pending" /\ c.server = functionMap[c.name]
             ELSE c.st = "notFound" /\ c.server = 0
      ]_vars

\* C11 witness: a call for a tool that the first server exposes under another
\* name only, and the second registered, was sent to the second server's
\* session and answered
C11_Witness ==
    /\ lastCall = Some([name |-> "x", server |-> 2, st |-> "result", closed |-> FALSE])
    /\ functionMap["x"] = 2
    /\ functionMap["y"] = 1

\* C12: after close() (called once or several times, directly or by the
\* cancellation signal) no held transport is still connected and the routing
\* table is empty, so every callTool made after it fails with not found and
\* issues no request.
C12_CloseEmptiesRouting ==
    /\ clientMap = <<>> =>
          /\ \A s \in Servers : transport[s] # "connected"
          /\ \A n \in ToolNames : functionMap[n] = 0
    /\ (lastCall # None /\ lastCall[1].closed) =>
          (lastCall[1].st = "notFound" /\ lastCall[1].server = 0)
(***************************************************************************)
(* Claims about the gateway                                                *)
(***************************************************************************)
\* C13: init fails for a user with downstream servers only when connecting
\* one of them failed; once the user's entry is stored, its callable-function
\* set is the set of tools listAllTools discovered on the user's servers,
\* each of which the routing table maps to a session.
C13_FunctionsFromListAllTools ==
    /\ initPc = "failed" => connPc = "failed"
    /\ \A e \in tokenToUserMap :
          e.mcpClient =>
              /\ listPass >= 1
              /\ e.functions = Some({n \in ToolNames : functionMap[n] # 0})
\* C14: a request to /infer or /embedding is answered 401 exactly when the
\* token taken from its Authorization header is not a key of the
\* token-to-user table; otherwise the request is bound to the entry stored
\* under that token. A request answered 401 is bound to no entry, reaches no
\* model and carries no stream frame.
C14_AuthByTokenTable ==
    LET r == reqs[1]
        token == ExtractToken(r.header)
    IN  r.pc # "idle" =>
          /\ r.status = 401 <=> ~(\E e \in tokenToUserMap : e.token = token)
          /\ r.status # 401 =>
                \E e \in tokenToUserMap : e.token = token /\ r.userInfo = Some(e)
          /\ r.status = 401 =>
                r.userInfo = None /\ r.frames = <<>> /\ r.engine = "none"

\* C14 witness: the second user's token was accepted on /infer and the
\* request bound to the second user's entry
C14_Witness ==
    /\ reqs[1].route = "infer"
    /\ reqs[1].header = BearerPrefix \o T2
    /\ reqs[1].status = 200
    /\ reqs[1].userInfo # None
    /\ reqs[1].userInfo[1].user_id = "u2"

Present(j) == j.t \notin {"undefined", "null"}
InferBodyInvalid(body) ==
    \/ ~Present(body.prompt)
    \/ body.prompt = JStr("")
    \/ Present(body.temperature)
          /\ ~(body.temperature.t = "number" /\ body.temperature.n >= 0
                 /\ body.temperature.n <= 20)
    \/ Present(body.stopText)
          /\ ~(body.stopText.t = "array" /\ Len(body.stopText.a) >= 1)

\* C15: an authenticated /infer request is answered 400 exactly when its
\* prompt is absent or empty, or its temperature is present and not a number
\* in [0, 2], or its stop sequences are present and not a non-empty list; a
\* request answered 400 never reaches the inference engine.
C15_InferValidation ==
    LET r == reqs[1] IN
    (r.route = "infer" /\ r.pc # "idle" /\ r.status # 401) =>
        /\ r.status = 400 <=> InferBodyInvalid(r.body)
        /\ r.status = 400 => (r.engine = "none" /\ r.frames = <<>>)

TerminalAt(frames) == {i \in 1..Len(frames) : frames[i].kind \in {"eof", "error"}}

\* C16: while the engine call of an accepted /infer request is running no
\* terminal frame has been written; once the response is ended exactly one
\* terminal frame has been written and it is the last frame: data:[EOF] if the
\* engine call returned, the event: error frame if it threw.
C16_OneTerminalFrame ==
    LET r == reqs[1] IN
    (r.route = "infer" /\ r.status = 200) =>
        /\ r.pc = "engine" => TerminalAt(r.frames) = {}
        /\ r.pc = "ended" =>
              /\ TerminalAt(r.frames) = {Len(r.frames)}
              /\ r.engine \in {"returned", "threw"}
              /\ r.engine = "returned" =>
                    r.frames[Len(r.frames)] = Frame("eof", EOFFrame)
              /\ r.engine = "threw" =>
                    r.frames[Len(r.frames)] = Frame("error", ErrorFrame(ErrorText))

\* C16 witness: the engine threw after two chunks were streamed; the stream
\* is two data frames and the error frame
C16_Witness ==
    /\ reqs[1].pc = "ended"
    /\ reqs[1].engine = "threw"
    /\ Len(reqs[1].frames) = 3
    /\ reqs[1].frames[1].kind = "data" /\ reqs[1].frames[2].kind = "data"
    /\ reqs[1].frames[3].kind = "error"
RECURSIVE Concat(_)
Concat(strs) == IF strs = <<>> THEN <<>> ELSE Head(strs) \o Concat(Tail(strs))

\* C17: when the stream of an /infer request whose engine call completed has
\* been read to its end, the text the consumer has reconstructed is the
\* concatenation of the chunks the engine produced, newlines included.
C17_FramingRoundTrip ==
    (consumerPc = "done" /\ reqs[1].engine = "returned") =>
        result = Concat(reqs[1].chunks)
\* C18: however many times close() is called, at the same time or one call
\* after the other, the abort event is dispatched once, close() of each
\* engine runs once and close of the HTTP listener is called once.
C18_ShutdownIdempotent ==
    /\ abortFired <= 1
    /\ models["infer"].closes <= 1
    /\ models["embed"].closes <= 1
    /\ listenerCloses <= 1
\* C19: at the step at which a close() of the gateway runs to its end, the
\* abort signal has fired, every engine call still in flight has had its
\* model's abort signal fired, the MCP client that init() constructed holds
\* no client and no connected transport, the HTTP listener no longer accepts connections and
\* no connection is left open.
ShutdownDone ==
    /\ aborted
    /\ \A k \in Slots : reqs[k].pc = "engine" => reqs[k].aborted
    /\ connPc # "idle" =>
          /\ clientMap = <<>>
          /\ \A sv \in Servers : transport[sv] # "connected"
    /\ httpServer \notin {"listening", "closing"}
    /\ \A k \in Slots : reqs[k].conn = "closed"
C20_EmptyRedirectUris ==
    \A n \in 1..Len(builds) :
        (builds[n].error = "empty redirect_uris") <=> (Len(builds[n].uris) = 0)

\* a provider built from an empty list has thrown, and one built by the
\* MCPClient constructor for an entry read with an empty list has not
C20_Witness ==
    \E n, k \in 1..Len(builds) :
        /\ builds[n].uris = <<>> /\ builds[n].error = "empty redirect_uris"
        /\ builds[k].by = "MCPClient" /\ builds[k].configured = <<>>
        /\ builds[k].error = ""
\* C21: an authenticated /embedding request is answered 500 when no
\* embedding engine is configured, else 400 when the text is absent or
\* empty, else 500 with the engine's message when the engine call failed,
\* else 200; and no step of an /embedding request changes the token table,
\* the engines, the listener or the request of another connection.
TextMissing(body) == body.prompt \in {JUndef, JNull, JStr("")}
EmbeddingAnswer(r) ==
    IF ~models["embed"].present THEN <<500, "Embedding model not found">>
    ELSE IF TextMissing(r.body) THEN <<400, "text required">>
    ELSE IF r.engine = "threw" THEN <<500, EngineMessage>>
    ELSE <<200, "">>
EmbeddingAnswered ==
    \A k \in Slots :
        (/\ reqs[k].route = "embedding"
         /\ reqs[k].pc = "ended"
         /\ MapHas(tokenToUserMap, ExtractToken(reqs[k].header)))
        => /\ <<reqs[k].status, reqs[k].error>> = EmbeddingAnswer(reqs[k])
           /\ reqs[k].status = 200 => reqs[k].engine = "returned"
EmbeddingStepIsLocal ==
    \A k \in Slots :
        (reqs'[k].route = "embedding" /\ reqs'[k] # reqs[k])
        => /\ UNCHANGED <<tokenToUserMap, models, httpServer>>
           /\ \A j \in Slots \ {k} : reqs'[j] = reqs[j]
C21_EmbeddingOutcomes == []EmbeddingAnswered /\ [][EmbeddingStepIsLocal]_vars

\* an /embedding request whose engine call failed was answered 500 while an
\* /infer request was being served on the other connection
C21_Witness ==
    /\ reqs[1].route = "embedding" /\ reqs[1].pc = "ended"
    /\ reqs[1].status = 500 /\ reqs[1].error = EngineMessage
    /\ reqs[2].route = "infer" /\ reqs[2].pc = "engine"
\* C22: a handler run that returned has called callTool with the name of its
\* tool and the params it was given (an empty object when there were none),
\* and has returned the content of the result, or the placeholder text when
\* that content is absent or an empty list.
C22_HandlerForwards ==
    (handled # None /\ handled[1].st = "returned") =>
        LET h == handled[1] IN
        /\ h.name = h.tool
        /\ h.args = IF h.params = NoParams THEN EmptyObject ELSE h.params
        /\ IF h.content = None \/ h.content = Some(<<>>)
              THEN /\ h.value.kind = "placeholder"
                   /\ h.value.text = Placeholder(h.tool)
              ELSE /\ h.value.kind = "content"
                   /\ h.value.content = h.content[1]
\* C23: a waitForAuthorizationCode() issued while an earlier wait is still
\* outstanding is rejected, so at most one wait is pending at any time, and
\* once a /callback request has been handled no wait is pending.
PendingWaits == {w \in 1..Len(waiters) : waiters[w].st = "pending"}
C23_SecondWaiterRejected ==
    /\ Cardinality(PendingWaits) <= 1
    /\ cbRequests # <<>> => PendingWaits = {}
\* C24: once connect() has returned or thrown, the callback server started
\* for the last server it worked on is no longer listening; and a callback
\* server is listening only while a connection attempt is in progress.
C24_RendezvousClosed ==
    /\ connPc \in {"done", "failed"} => ~cbListening
    /\ cbListening => connPc \in {"connecting", "waiting", "exchanging"}
\* C25: during start-up at most one AuthCallbackServer is listening on the
\* callback port and at most one connection attempt (a _connect that was
\* started and has neither connected its server nor failed) is in progress.
AttemptsInProgress ==
    Len(attempts) - Cardinality(connected) - (IF connPc = "failed" THEN 1 ELSE 0)
C25_OneAttemptOnePort ==
    /\ cbBound <= 1
    /\ AttemptsInProgress <= 1

\* the second user's MCP client waits for an authorization code for its
\* second server, after the first server was connected
C25_Witness ==
    /\ initPc = "connecting" /\ initIdx = 2
    /\ connPc = "waiting"
    /\ Len(attempts) = 2 /\ Cardinality(connected) = 1
    /\ cbBound = 1
\* C26: in the connect loop a wait for an authorization code is started only
\* by an unauthorized connect attempt, a code is exchanged only when that
\* wait has resolved and it is the code the wait resolved with, the exchange
\* is followed by a new connect attempt or a failure, a server is marked
\* connected only by a connect attempt that succeeded, and connect() returns
\* only when every configured server is connected.
C26_ConnectLoopOrder ==
    [][ /\ (connPc' = "waiting" /\ connPc # "waiting") =>
              /\ connPc = "connecting"
              /\ Len(waiters') = Len(waiters) + 1
              /\ connWaiter' = Len(waiters')
        /\ exchanges' # exchanges =>
              /\ connPc = "waiting" /\ connPc' = "exchanging"
              /\ waiters[connWaiter].st = "resolved"
              /\ exchanges' = Append(exchanges, waiters[connWaiter].val)
        /\ (connPc = "exchanging" /\ connPc' # "exchanging") =>
              connPc' \in {"connecting", "failed"}
        /\ connected' # connected =>
              /\ connPc = "connecting"
              /\ connected' = connected \cup {attempts[Len(attempts)]}
        /\ connPc' = "done" => \A sv \in Servers : sv \in connected'
      ]_vars
\* C27: every wait for an authorization code that the connect loop starts is
\* made on a callback server on which no wait was made before (the server
\* of an authorization round is not used for a later round).
C27_FreshRendezvous ==
    [][(connPc = "connecting" /\ connPc' = "waiting") => cbNotify = None]_vars
\* C28: when the abort signal has fired and closed the callback server while
\* connect() is blocked in waitForAuthorizationCode, connect() eventually
\* leaves the wait.
C28_AbortedWaitUnwinds ==
    (aborted /\ connPc = "waiting" /\ ~cbListening) ~> (connPc # "waiting")
\* C29: however many times an MCPClient is constructed over the same user
\* object, the redirect_uris list of each of its entries holds the callback
\* URL at most once, and exactly once as soon as a provider was built for it
\* by the MCPClient constructor.
CallbackCount(uris) == Cardinality({n \in 1..Len(uris) : uris[n] = CallbackURL})
C29_CallbackURLOnce ==
    /\ \A i \in 1..Len(configs) : CallbackCount(configs[i]) <= 1
    /\ \A n \in 1..Len(builds) :
          builds[n].by = "MCPClient" => CallbackCount(builds[n].uris) = 1
\* C30: for an /infer request the engine is called and the headers are
\* flushed only if the request carried a known token and passed the
\* validation, frames are written only after the headers were flushed, a
\* request answered 401 or 400 has no frame, no flushed header and no engine
\* call, and a request goes from received to streaming to ended, or from
\* received to ended, never back.
Accepted(r) ==
    /\ MapHas(tokenToUserMap, ExtractToken(r.header))
    /\ ValidateInferRequest(r.body) = ""
StreamLifecycle ==
    \A k \in Slots :
        LET r == reqs[k] IN
        r.route = "infer" =>
            /\ r.engine # "none" => r.flushed
            /\ r.flushed <=> Accepted(r)
            /\ r.flushed => r.status = 200 /\ r.userInfo # None
            /\ r.frames # <<>> => r.flushed
            /\ r.status \in {400, 401} =>
                  r.frames = <<>> /\ ~r.flushed /\ r.engine = "none"
            /\ r.status = 401 <=> ~MapHas(tokenToUserMap, ExtractToken(r.header))
            /\ r.pc = "engine" => r.engine = "running"
StreamSteps ==
    \A k \in Slots :
        (reqs[k].route = "infer" /\ reqs'[k].route = "infer") =>
            /\ reqs[k].pc = "engine" => reqs'[k].pc \in {"engine", "ended"}
            /\ reqs[k].pc = "ended" => reqs'[k] = reqs[k]
            /\ reqs[k].flushed => reqs'[k].flushed
C30_StreamLifecycle == []StreamLifecycle /\ [][StreamSteps]_vars

\* an /infer request with a known token and an invalid body was answered 400
C30_Witness ==
    /\ reqs[1].route = "infer" /\ reqs[1].pc = "ended"
    /\ reqs[1].status = 400 /\ reqs[1].userInfo # None
    /\ reqs[1].frames = <<>> /\ ~reqs[1].flushed
\* C31: a step that handles a request (GET /, /infer or /embedding, accepted
\* or rejected, on any connection slot) leaves the token-to-user table, the
\* MCP clients and their function maps as they were, and the table changes
\* only in a step of init(), before the server listens.
C31_TableReadOnly ==
    [][/\ reqs' # reqs => UNCHANGED <<tokenToUserMap, users, connVars, toolVars>>
       /\ tokenToUserMap' # tokenToUserMap =>
             initPc = "user" /\ httpServer = "none" /\ reqs' = reqs]_vars

\* two users are registered, a request of one of them was streamed to its
\* end and a request with an unknown token was answered 401
C31_Witness ==
    /\ Cardinality(tokenToUserMap) = 2
    /\ reqs[1].route = "infer" /\ reqs[1].status = 200 /\ reqs[1].pc = "ended"
    /\ reqs[1].frames # <<>>
    /\ reqs[2].status = 401
\* C32: a listTool call that failed threw an error that names the client id
\* it was called with, a call issues at most one tools/list request, and a
\* call for an id that is not in clientMap issues none.
C32_ListToolErrorCarriesId ==
    listCall # None =>
        LET c == listCall[1] IN
        /\ c.requests <= 1
        /\ c.st = "error" => c.error # NoError /\ c.error.id = c.id
        /\ (c.st = "error" /\ c.error = ClientNotFound(c.id)) => c.requests = 0
\* C33: whenever a refresh request is issued, the refresh token it sends is
\* the refresh token of the token set the session stores at that moment.
C33_RefreshSendsCurrentToken ==
    [][\A tm \in timers :
          (tm \notin timers' /\ tm \in inflight' /\ tm \notin inflight) =>
              /\ tokens # None
              /\ tokens[1].refresh_token = Some(tm.refreshToken)]_vars
\* C34: the answer of /callback and the outcome given to the waiter agree: a
\* wait that resolved with a code resolved with the code of a request that
\* was answered 200, and with one wait and one /callback request answered
\* 400 the wait is rejected.
C34_AnswerMatchesOutcome ==
    /\ \A w \in 1..Len(waiters) :
          waiters[w].st = "resolved" =>
              \E i \in 1..Len(cbRequests) :
                  /\ cbRequests[i].status = 200
                  /\ cbRequests[i].code = Some(waiters[w].val)
    /\ (Len(cbRequests) = 1 /\ Len(waiters) = 1 /\ cbRequests[1].status = 400) =>
          waiters[1].st = "rejected"
\* C35: a request whose Authorization header does not start with the Bearer
\* scheme (no header, or the bare token) is answered 401 and bound to no user.
C35_BearerSchemeRequired ==
    \A k \in Slots :
        (reqs[k].route \in {"infer", "embedding"}
           /\ ~StartsWith(reqs[k].header, BearerPrefix)) =>
            reqs[k].status = 401 /\ reqs[k].userInfo = None
\* C36: when the stream of an /infer request has been read to its end, the
\* text the consumer has decoded is the text it decodes from the same bytes
\* delivered in a single read, whatever the reads were.
C36_SplitIndependent ==
    consumerPc = "done" =>
        result = DecodeParts(Split(Written(1), FrameEnd), <<>>)
\* C37: infer() of the consumer returns a result only for a stream whose
\* last frame is the end-of-stream frame; for a stream that ends with the
\* error frame it does not return.
C37_ErrorFrameFails ==
    consumerPc = "done" =>
        /\ reqs[1].frames # <<>>
        /\ reqs[1].frames[Len(reqs[1].frames)].kind = "eof"
\* C38: when listAllTools has rejected because a listTool threw, the routing
\* table holds no entry that was registered during that call.
C38_FailedListingRegistersNothing ==
    (listPc = "idle" /\ listError # None) =>
        \A n \in ToolNames :
            (functionMap[n] # 0 /\ firstSeen[n] # None) =>
                firstSeen[n][1].pass < listPass
\* C39: when listAllTools has returned, every function that
\* #mapToolsToLlamaFunctions binds for its result carries the description and
\* schema of the server to which the routing table sends the function's name.
C39_FunctionsAgreeWithRouting ==
    (listPc = "idle" /\ listError = None /\ listPass >= 1) =>
        LET functions ==
                MapToolsToLlamaFunctions(listResult, [n \in ToolNames |-> 0])
        IN  \A n \in ToolNames :
                functions[n] # 0 => functions[n] = functionMap[n]
\* C40: init() never ends in failure: when it has ended it has returned,
\* and every user read that has no MCP clients is registered under its
\* token with no MCP client and no functions, whatever happened to the
\* connect or the tool discovery of another user.
C40_InitIsolatesUsers ==
    /\ initPc # "failed"
    /\ initPc = "ready" =>
          \A i \in 1..Len(users) :
              ~users[i].mcp =>
                  \E e \in tokenToUserMap :
                      /\ e.token = users[i].bearer_token
                      /\ (e.user_id = users[i].user_id =>
                             ~e.mcpClient /\ e.functions = None)
====
